---- MODULE Spec2Model ----
(***************************************************************************)
(* State-machine model of src/src/bot.mjs: the session memory store        *)
(* (userMemory, sharedMemory, sessionSummary, sessionCache), the           *)
(* summarizer, the prompt-cache manager, the GeminiPool failover           *)
(* controller and the InteractionCreate / MessageCreate handlers.          *)
(*                                                                         *)
(* Node runs one handler continuation at a time; a handler is suspended    *)
(* only at an await on network I/O.  One action of the model is therefore  *)
(* one continuation: everything a handler does from the completion of one  *)
(* I/O await to the start of the next.                                     *)
(***************************************************************************)
EXTENDS Integers, Sequences, FiniteSets, TLC

VARIABLES
    env,            \* process.env as read at module load (never changes)
    now,            \* Date.now(), in milliseconds
    userMemory,     \* Map sk -> [{role, text}]
    sharedMemory,   \* Map channelId -> [{speaker, text}]
    sessionSummary, \* Map sk -> string
    sessionCache,   \* Map sk -> {name, createdAt}
    clients,        \* GeminiPool.clients: index -> {exhaustedUntil, label}
    idx,            \* GeminiPool.idx, the round-robin pointer
    cacheSeq,       \* the cache objects the upstream API has created, in
                    \* order: the text of each; the k-th one is named k
    handlers,       \* the in-flight invocations of the two event handlers
    started,        \* number of handler invocations started so far
    chunkArg,       \* chunkForDiscord called on its own: {text, limit}
    chunkOut        \* and the array it returned, empty before the call

vars == <<env, now, userMemory, sharedMemory, sessionSummary, sessionCache,
          clients, idx, cacheSeq, handlers, started, chunkArg, chunkOut>>

(***************************************************************************)
(* Bounds of the model.                                                    *)
(***************************************************************************)
MaxStarted == 3      \* handler invocations per behaviour
MaxTicks   == 3      \* clock advances per behaviour
MaxChunks  == 2      \* fragments of one streamed response
MaxRecorded == 4     \* turns recorded one after the other
MaxCalls   == 2      \* commands per behaviour where the pool is studied
MaxLen     == 12     \* characters of a text that is cut into chunks
MaxLimit   == 8      \* the limit it is cut at

Procs    == {1, 2}
Channels == {"c1"}
Users    == {"u1", "u2"}

Max(a, b) == IF a >= b THEN a ELSE b
Min(a, b) == IF a <= b THEN a ELSE b

(***************************************************************************)
(* Strings.  A text is modelled by the sequence of the pieces it was put   *)
(* together from and by its length in characters; a proper prefix keeps    *)
(* the pieces and has the shorter length.  A text whose pieces are its     *)
(* characters (Literal) is cut character by character.                     *)
(***************************************************************************)
Text(id, len) == [id |-> id, len |-> len]
EmptyText == Text(<<>>, 0)
Literal(s) == Len(s.id) = s.len

\* a + b
Concat(a, b) == Text(a.id \o b.id, a.len + b.len)

\* s.slice(0, n) for n >= 0
SliceHead(s, n) ==
    IF s.len <= n THEN s
    ELSE IF n = 0 THEN EmptyText
    ELSE IF Literal(s) THEN Text(SubSeq(s.id, 1, n), n)
    ELSE Text(s.id, n)

(***************************************************************************)
(* JavaScript Map and Array operations.                                    *)
(***************************************************************************)
MapHas(m, k)    == k \in DOMAIN m
MapSet(m, k, v) == [x \in (DOMAIN m) \cup {k} |-> IF x = k THEN v ELSE m[x]]
MapDelete(m, k) == [x \in (DOMAIN m) \ {k} |-> m[x]]
EmptyMap        == [x \in {} |-> 0]

\* Array.prototype.slice(start): a negative start counts from the end, and
\* -0 is 0, so slice(-0) is the whole array
ArraySlice(a, start) ==
    LET len  == Len(a)
        from == IF start < 0 THEN Max(len + start, 0) ELSE Min(start, len)
    IN  SubSeq(a, from + 1, len)

(***************************************************************************)
(* Configuration.  env[name] is the set holding the integer parseInt       *)
(* reads from the variable, empty when the variable is unset or not a      *)
(* number.                                                                 *)
(***************************************************************************)
num(name, def) == IF env[name] = {} THEN def ELSE CHOOSE n \in env[name] : TRUE

MAX_TURNS_PRIVATE == num("MEM_TURNS_PRIVATE", 12)
MAX_TURNS_SHARED  == num("MEM_TURNS_SHARED", 8)
CACHE_TTL_SEC     == num("GEMINI_CACHE_TTL_SEC", 3600)
MIN_CACHE_TOKENS  == num("GEMINI_MIN_CACHE_TOKENS", 1100)
\* parseInt(process.env.GEMINI_FAILOVER_COOLDOWN_SEC || '600', 10) * 1000, for a
\* variable that is unset or holds an integer
FAILOVER_COOLDOWN_MS ==
    (IF env["GEMINI_FAILOVER_COOLDOWN_SEC"] = {} THEN 600
     ELSE CHOOSE v \in env["GEMINI_FAILOVER_COOLDOWN_SEC"] : TRUE) * 1000

\* new GeminiPool([GEMINI_API_KEY_1, GEMINI_API_KEY_2]): keys is the pair of
\* booleans "the key is a non-empty string"
GeminiPool(keys) ==
    LET n == Cardinality({k \in 1..2 : keys[k]})
    IN  [i \in 0..(n - 1) |->
            [exhaustedUntil |-> 0,
             label |-> IF i = 0 THEN "primary" ELSE "secondary"]]

(***************************************************************************)
(* Errors thrown by the upstream API or the gateway: {code, status,        *)
(* message}.  The message is one of a few concrete messages; those whose   *)
(* text is a JSON body carry the parsed body's fields in JsonBody.         *)
(***************************************************************************)
Error(code, status, message) == [code |-> code, status |-> status, message |-> message]
NoError == Error(0, "", "")

E429      == Error(429, "", "Too Many Requests")
EJsonBody == Error(0, "", "{\"error\":{\"code\":429,\"status\":\"RESOURCE_EXHAUSTED\"}}")
EQuotaMsg == Error(0, "", "Quota exceeded for metric")
E500      == Error(500, "INTERNAL", "internal error")
EGateway  == Error(10008, "", "Unknown Message")

QuotaErrors == {E429, EJsonBody}
OtherErrors == {E500}
UpstreamErrors == QuotaErrors \cup OtherErrors

\* msg.trim().startsWith('{') and JSON.parse(msg) succeeds
IsJson(message) == message = EJsonBody.message
\* e = j.error || j of the parsed body
JsonBody(message) == Error(429, "RESOURCE_EXHAUSTED", "")
\* /quota|rate limit|resource_exhausted|exceeded/.test(m), m lower-cased
MatchesQuotaText(message) ==
    message \in {EQuotaMsg.message, "rate limit", "RESOURCE_EXHAUSTED", "deadline exceeded"}

_isQuotaError(err) ==
    LET j      == JsonBody(err.message)
        parsed == IsJson(err.message)
        msg    == IF parsed /\ j.message # "" THEN j.message ELSE err.message
        code   == IF parsed /\ j.code # 0 THEN j.code ELSE err.code
        status == IF parsed /\ j.status # "" THEN j.status ELSE err.status
    IN  code = 429 \/ status = "RESOURCE_EXHAUSTED" \/ MatchesQuotaText(msg)

(***************************************************************************)
(* The program state a continuation works on, as one record, so that the   *)
(* steps of a handler compose as functions from state to state.            *)
(***************************************************************************)
Cur == [userMemory |-> userMemory, sharedMemory |-> sharedMemory,
        sessionSummary |-> sessionSummary, sessionCache |-> sessionCache,
        clients |-> clients, idx |-> idx, cacheSeq |-> cacheSeq,
        handlers |-> handlers]

Becomes(S) ==
    /\ userMemory' = S.userMemory
    /\ sharedMemory' = S.sharedMemory
    /\ sessionSummary' = S.sessionSummary
    /\ sessionCache' = S.sessionCache
    /\ clients' = S.clients
    /\ idx' = S.idx
    /\ cacheSeq' = S.cacheSeq
    /\ handlers' = S.handlers
    /\ UNCHANGED <<chunkArg, chunkOut>>

(***************************************************************************)
(* Session memory store.                                                   *)
(*                                                                         *)
(* summarizeIfNeeded keeps a reference (priv) to the array that was stored *)
(* for sk when it started.  pushUserTurn pushes onto the stored array and  *)
(* then stores a copy, so the push is seen through every reference to the  *)
(* array that was stored, and nothing later is.  A handler's privLive says *)
(* that its priv is still the stored array.                                *)
(***************************************************************************)
Turn(role, text) == [role |-> role, text |-> text]
SharedTurn(speaker, text) == [speaker |-> speaker, text |-> text]

\* the array stored for sk gets element t pushed
PushSeen(hs, sk, t) ==
    [q \in DOMAIN hs |->
        IF hs[q].privLive /\ hs[q].sk = sk
        THEN [hs[q] EXCEPT !.priv = Append(@, t)]
        ELSE hs[q]]

\* another array (or none) is stored for sk
Replaced(hs, sk) ==
    [q \in DOMAIN hs |->
        IF hs[q].sk = sk THEN [hs[q] EXCEPT !.privLive = FALSE] ELSE hs[q]]

\* getUserHist(sk) / getSharedHist(channelId): the stored array, after
\* storing an empty one when there is none
getUserHist(S, sk) ==
    IF MapHas(S.userMemory, sk) THEN S
    ELSE [S EXCEPT !.userMemory = MapSet(@, sk, <<>>),
                   !.handlers = Replaced(@, sk)]

getSharedHist(S, channelId) ==
    IF MapHas(S.sharedMemory, channelId) THEN S
    ELSE [S EXCEPT !.sharedMemory = MapSet(@, channelId, <<>>)]

pushUserTurn(S, sk, role, text) ==
    LET S1 == getUserHist(S, sk)
        h  == Append(S1.userMemory[sk], Turn(role, text))
    IN  [S1 EXCEPT !.userMemory = MapSet(@, sk, ArraySlice(h, 0 - MAX_TURNS_PRIVATE)),
                   !.handlers = Replaced(PushSeen(@, sk, Turn(role, text)), sk)]

pushSharedTurn(S, channelId, speaker, text) ==
    LET S1 == getSharedHist(S, channelId)
        h  == Append(S1.sharedMemory[channelId], SharedTurn(speaker, text))
    IN  [S1 EXCEPT !.sharedMemory = MapSet(@, channelId, ArraySlice(h, 0 - MAX_TURNS_SHARED))]

roughTokens(s) == (s.len + 3) \div 4

(***************************************************************************)
(* GeminiPool.                                                             *)
(***************************************************************************)
PoolSize(S) == Cardinality(DOMAIN S.clients)

\* the comparison inverted: the first exhausted client is taken
_findAvailableIndexInverted(S) ==
    LET n     == PoolSize(S)
        avail == {i \in 0..(n - 1) : S.clients[(S.idx + i) % n].exhaustedUntil > now}
    IN  IF avail = {} THEN S.idx
        ELSE (S.idx + (CHOOSE i \in avail : \A k \in avail : i <= k)) % n

\* the scan starts at index 0 instead of the pointer
_findAvailableIndexFromZero(S) ==
    LET n     == PoolSize(S)
        avail == {i \in 0..(n - 1) : S.clients[i].exhaustedUntil <= now}
    IN  IF avail = {} THEN 0
        ELSE CHOOSE i \in avail : \A k \in avail : i <= k

_findAvailableIndex(S) ==
    LET n     == PoolSize(S)
        avail == {i \in 0..(n - 1) : S.clients[(S.idx + i) % n].exhaustedUntil <= now}
    IN  IF avail = {} THEN S.idx
        ELSE (S.idx + (CHOOSE i \in avail : \A k \in avail : i <= k)) % n

\* the pointer is not advanced
_markExhaustedKeepsIdx(S, i) ==
    [S EXCEPT !.clients[i].exhaustedUntil = now + FAILOVER_COOLDOWN_MS]

\* the cooldown is not added
_markExhaustedNoCooldown(S, i) ==
    [S EXCEPT !.clients[i].exhaustedUntil = now,
              !.idx = (i + 1) % PoolSize(S)]

_markExhausted(S, i) ==
    [S EXCEPT !.clients[i].exhaustedUntil = now + FAILOVER_COOLDOWN_MS,
              !.idx = (i + 1) % PoolSize(S)]

(***************************************************************************)
(* Handler invocations.  pc names the await the invocation is suspended    *)
(* at; the other fields are its local variables, the frame of the          *)
(* gemini.call() it is inside, and a record of what it did.                *)
(***************************************************************************)
\* a Discord message as the trigger guard reads it: its type, whether its
\* author is a bot, whether it has a webhookId or an applicationId, whether
\* its channel is a direct-message channel, its content as a sequence of
\* characters, and the number of its (image) attachments
Message(type, bot, webhookId, applicationId, isDM, content, attachments) ==
    [type |-> type, bot |-> bot, webhookId |-> webhookId,
     applicationId |-> applicationId, isDM |-> isDM, content |-> content,
     attachments |-> attachments]

\* the handler was not started by a message that is modelled in detail
NoMessage == Message("Default", FALSE, FALSE, FALSE, FALSE, <<>>, 0)

IdleHandler ==
    [pc |-> "idle", kind |-> "", sk |-> <<"", "">>, channelId |-> "",
     nick |-> EmptyText, prompt |-> EmptyText,
     priv |-> <<>>, privLive |-> FALSE,          \* summarizeIfNeeded: priv
     summaryText |-> EmptyText,                  \* ensureSessionCache: summaryText
     cacheName |-> 0,                            \* cacheName, 0 for null
     channelCtx |-> EmptyText,                   \* channelCtx
     extraImageParts |-> <<>>,                   \* mediaParts and recentImages
     msg |-> NoMessage,                          \* MessageCreate: msg
     accum |-> EmptyText, lastEdit |-> 0,        \* streaming branch
     nChunks |-> 0,                              \* fragments consumed so far
     outbox |-> <<>>,                            \* messages still to be sent
     op |-> "", attempt |-> 0, tried |-> {}, cur |-> 0,   \* GeminiPool.call
     log |-> <<>>,                \* clients fn was invoked on in this call()
     outcomes |-> <<>>,           \* the error each invocation ended with, or NoError
     selExhausted |-> FALSE,      \* the client last selected was exhausted then
     availAtStart |-> {},         \* clients available when this call() began
     nInv |-> 0,                  \* invocations of fn by this handler
     nRej |-> 0,                  \* invocations of fn that were rejected
     lastRej |-> NoError,         \* the error of the last rejected one
     err |-> NoError, errStage |-> "",           \* what the handler's catch got
     rejected |-> FALSE,                         \* the handler's promise rejected
     cleared |-> {}]              \* gemini-reset: the maps that had an entry

Msg(via, content) == [via |-> via, content |-> content]

\* literal texts of the program
PLACEHOLDER_WAIT  == Text(<<"wait">>, 3)
PLACEHOLDER_EMPTY == Text(<<"ricky spi najebany">>, 24)
NO_CONTENT        == Text(<<"(brak tresci)">>, 13)
LONG_NOTE         == Text(<<"(odpowiedz byla dluga)">>, 69)
RESET_DONE        == Text(<<"kontekst wyczyszczony">>, 43)
ErrorText(e)      == Text(<<"Blad: ", e.message>>, 8 + Len(e.message))
RICKY             == Text(<<"Ricky">>, 5)

\* s.slice(i, i + n)
SliceAt(s, i, n) ==
    IF i = 0 THEN SliceHead(s, n)
    ELSE IF Literal(s) THEN Text(SubSeq(s.id, i + 1, Min(i + n, s.len)), Min(n, s.len - i))
    ELSE Text(<<s.id, i>>, Min(n, s.len - i))

\* the last chunk is dropped when it is shorter than the limit
chunkForDiscordFloor(text, limit) ==
    IF text.len <= limit THEN <<text>>
    ELSE [k \in 1..(text.len \div limit) |->
              SliceAt(text, (k - 1) * limit, limit)]

chunkForDiscord(text, limit) ==
    IF text.len <= limit THEN <<text>>
    ELSE [k \in 1..((text.len + limit - 1) \div limit) |->
              SliceAt(text, (k - 1) * limit, limit)]

\* flag(name, def)
flag(name, def) == IF env[name] = {} THEN def ELSE CHOOSE b \in env[name] : TRUE
IMAGE_FETCH            == flag("IMAGE_FETCH", TRUE)
IMAGE_CTX_FROM_CHANNEL == flag("IMAGE_CTX_FROM_CHANNEL", FALSE)
useStream              == flag("GEMINI_STREAM", TRUE)
REACT_TO_NONUSER       == flag("REACT_TO_NONUSER_MESSAGES", FALSE)

H(S, p) == S.handlers[p]
SetH(S, p, h) == [S EXCEPT !.handlers[p] = h]

(***************************************************************************)
(* GeminiPool.call(fn): the first pass of the loop, up to the await of     *)
(* fn(c, lbl) on the selected client.                                      *)
(***************************************************************************)
Available(S) == {i \in DOMAIN S.clients : S.clients[i].exhaustedUntil <= now}

Invoke(S, h, i) ==
    [h EXCEPT !.pc = "call", !.cur = i, !.tried = @ \cup {i},
              !.log = Append(@, i), !.nInv = @ + 1,
              !.selExhausted = (S.clients[i].exhaustedUntil > now)]

call(S, p, opLabel) ==
    LET i == _findAvailableIndex(S)
        h == [H(S, p) EXCEPT !.op = opLabel, !.attempt = 0, !.tried = {},
                             !.log = <<>>, !.outcomes = <<>>,
                             !.availAtStart = Available(S)]
    IN  SetH(S, p, Invoke(S, h, i))

(***************************************************************************)
(* The handlers' steps, last first.                                        *)
(***************************************************************************)
\* the handler returns; of its frame only what it was and how it ended is kept
Done(S, p) ==
    LET h == H(S, p)
    IN  SetH(S, p, [IdleHandler EXCEPT !.pc = "done", !.kind = h.kind, !.sk = h.sk,
                                       !.channelId = h.channelId])

\* an await outside every try block fails: the handler's promise is rejected
Rejected(S, p, e) ==
    SetH(S, p, [H(Done(S, p), p) EXCEPT !.rejected = TRUE, !.err = e])

\* send the messages of the outbox one await at a time
Emit(S, p, msgs) ==
    IF msgs = <<>> THEN Done(S, p)
    ELSE SetH(S, p, [H(S, p) EXCEPT !.pc = "emit", !.outbox = msgs])

\* the error text is recorded as the assistant's turn
CatchRecordsReply(S, p, e, stage) ==
    LET h  == H(S, p)
        S1 == pushSharedTurn(pushUserTurn(S, h.sk, "model", ErrorText(e)),
                             h.channelId, RICKY, ErrorText(e))
    IN  SetH(S1, p, [H(S1, p) EXCEPT !.pc = "errorReply", !.privLive = FALSE,
                             !.err = e, !.errStage = stage,
                             !.outbox = <<Msg(IF h.kind = "gemini" THEN "editReply" ELSE "reply",
                                              ErrorText(e))>>])

\* catch (err) of the handler: one error reply
Catch(S, p, e, stage) ==
    LET h == H(S, p)
    IN  SetH(S, p, [h EXCEPT !.pc = "errorReply", !.privLive = FALSE,
                             !.err = e, !.errStage = stage,
                             !.outbox = <<Msg(IF h.kind = "gemini" THEN "editReply" ELSE "reply",
                                              ErrorText(e))>>])

\* the answer is complete: record it and send it
Answer(S, p, text) ==
    LET h      == H(S, p)
        S1     == pushSharedTurn(pushUserTurn(S, h.sk, "model", text),
                                 h.channelId, RICKY, text)
        chunks == chunkForDiscord(text, 2000)
        rest   == [k \in 1..(Len(chunks) - 1) |->
                      Msg(IF h.kind = "gemini" THEN "followUp" ELSE "send", chunks[k + 1])]
        first  ==
            IF h.kind = "gemini"
            THEN IF h.op = "generateContentStream" /\ Len(chunks) > 1
                 THEN Msg("editReply", Concat(chunks[1], LONG_NOTE))
                 ELSE Msg("editReply", chunks[1])
            ELSE IF h.op = "generateContentStream"
                 THEN Msg("edit", SliceHead(text, 2000))
                 ELSE Msg("reply", chunks[1])
    IN  Emit(S1, p, <<first>> \o rest)

\* length of lines.join('\n')
JoinLen(lens) ==
    LET Sum[k \in 0..Len(lens)] == IF k = 0 THEN 0 ELSE Sum[k - 1] + lens[k]
    IN  Sum[Len(lens)] + Max(Len(lens) - 1, 0)

TextPart(t) == [text |-> t]
ImagePart(k) == [inlineData |-> k]
Content(role, parts) == [role |-> role, parts |-> parts]

\* `Aktualny rozmowca: ${myNick}. Odpowiadaj zwiezle.`
HeaderText(myNick) ==
    Text(<<"Aktualny rozmowca: ", myNick.id, ". Odpowiadaj zwiezle.">>, 19 + myNick.len + 21)

\* the digest of the shared turns, closed by the speaker's name
SharedText(shared, myNick) ==
    Text(<<"Kontekst pamieci kanalu", [k \in 1..Len(shared) |-> shared[k]], myNick.id>>,
         47 + JoinLen([k \in 1..Len(shared) |->
                          2 + shared[k].speaker.len + 3 + shared[k].text.len])
            + 27 + myNick.len + 1)

\* `Kontekst z historii kanalu:\n${channelSnapshot}`
ChannelText(channelSnapshot) ==
    Text(<<"Kontekst z historii kanalu", channelSnapshot.id>>, 28 + channelSnapshot.len)

MEDIA_TEXT == Text(<<"Dodatkowe obrazy:">>, 17)

\* the digest of the shared window is left out
toWindowedContentsNoShared(S, sk, channelId, myNick, channelSnapshot, extraImageParts) ==
    LET S1     == getSharedHist(getUserHist(S, sk), channelId)
        window == ArraySlice(S1.userMemory[sk], 0 - 6)
        priv   == [k \in 1..Len(window) |->
                      Content(IF window[k].role = "model" THEN "model" ELSE "user",
                              <<TextPart(window[k].text)>>)]
        header == <<Content("user", <<TextPart(HeaderText(myNick))>>)>>
        channelBlock ==
            IF channelSnapshot.len > 0
            THEN <<Content("user", <<TextPart(ChannelText(channelSnapshot))>>)>>
            ELSE <<>>
        mediaBlock ==
            IF Len(extraImageParts) > 0
            THEN <<Content("user", <<TextPart(MEDIA_TEXT)>> \o extraImageParts)>>
            ELSE <<>>
    IN  header \o priv \o channelBlock \o mediaBlock

\* toWindowedContents(sk, channelId, myNick, {channelSnapshot, extraImageParts})
toWindowedContents(S, sk, channelId, myNick, channelSnapshot, extraImageParts) ==
    LET S1     == getSharedHist(getUserHist(S, sk), channelId)
        window == ArraySlice(S1.userMemory[sk], 0 - 6)
        priv   == [k \in 1..Len(window) |->
                      Content(IF window[k].role = "model" THEN "model" ELSE "user",
                              <<TextPart(window[k].text)>>)]
        shared == ArraySlice(S1.sharedMemory[channelId], 0 - 5)
        sharedBlock ==
            IF Len(shared) > 0
            THEN <<Content("user", <<TextPart(SharedText(shared, myNick))>>)>>
            ELSE <<>>
        header == <<Content("user", <<TextPart(HeaderText(myNick))>>)>>
        channelBlock ==
            IF channelSnapshot.len > 0
            THEN <<Content("user", <<TextPart(ChannelText(channelSnapshot))>>)>>
            ELSE <<>>
        mediaBlock ==
            IF Len(extraImageParts) > 0
            THEN <<Content("user", <<TextPart(MEDIA_TEXT)>> \o extraImageParts)>>
            ELSE <<>>
    IN  header \o priv \o sharedBlock \o channelBlock \o mediaBlock

\* toWindowedContents and the generation call
Generate(S, p) ==
    LET h  == H(S, p)
        S1 == getSharedHist(getUserHist(S, h.sk), h.channelId)
    IN  call(S1, p, IF useStream THEN "generateContentStream" ELSE "generateContent")

\* a handle whose age equals the TTL is still reused
ensureSessionCacheInclusive(S, p) ==
    LET h        == H(S, p)
        has      == MapHas(S.sessionCache, h.sk)
        existing == S.sessionCache[h.sk]
        summary  == IF MapHas(S.sessionSummary, h.sk) THEN S.sessionSummary[h.sk]
                    ELSE EmptyText
    IN  IF has /\ (now - existing.createdAt) <= CACHE_TTL_SEC * 1000
        THEN Generate(SetH(S, p, [h EXCEPT !.cacheName = existing.name]), p)
        ELSE IF CACHE_TTL_SEC <= 0 \/ roughTokens(summary) < MIN_CACHE_TOKENS
        THEN Generate(SetH(S, p, [h EXCEPT !.cacheName = 0]), p)
        ELSE call(SetH(S, p, [h EXCEPT !.summaryText = summary]), p, "cache.create[A]")

\* a stored handle is reused whatever its age
ensureSessionCacheNoExpiry(S, p) ==
    LET h        == H(S, p)
        has      == MapHas(S.sessionCache, h.sk)
        existing == S.sessionCache[h.sk]
        summary  == IF MapHas(S.sessionSummary, h.sk) THEN S.sessionSummary[h.sk]
                    ELSE EmptyText
    IN  IF has
        THEN Generate(SetH(S, p, [h EXCEPT !.cacheName = existing.name]), p)
        ELSE IF CACHE_TTL_SEC <= 0 \/ roughTokens(summary) < MIN_CACHE_TOKENS
        THEN Generate(SetH(S, p, [h EXCEPT !.cacheName = 0]), p)
        ELSE call(SetH(S, p, [h EXCEPT !.summaryText = summary]), p, "cache.create[A]")

\* a stored handle is reused only while the summary it was created from is
\* still the one stored
ensureSessionCacheFollowsSummary(S, p) ==
    LET h        == H(S, p)
        has      == MapHas(S.sessionCache, h.sk)
        existing == S.sessionCache[h.sk]
        summary  == IF MapHas(S.sessionSummary, h.sk) THEN S.sessionSummary[h.sk]
                    ELSE EmptyText
    IN  IF has /\ (now - existing.createdAt) < CACHE_TTL_SEC * 1000
               /\ S.cacheSeq[existing.name] = summary
        THEN Generate(SetH(S, p, [h EXCEPT !.cacheName = existing.name]), p)
        ELSE IF CACHE_TTL_SEC <= 0 \/ roughTokens(summary) < MIN_CACHE_TOKENS
        THEN Generate(SetH(S, p, [h EXCEPT !.cacheName = 0]), p)
        ELSE call(SetH(S, p, [h EXCEPT !.summaryText = summary]), p, "cache.create[A]")

\* ensureSessionCache(sk), up to its first await
ensureSessionCache(S, p) ==
    LET h        == H(S, p)
        has      == MapHas(S.sessionCache, h.sk)
        existing == S.sessionCache[h.sk]
        summary  == IF MapHas(S.sessionSummary, h.sk) THEN S.sessionSummary[h.sk]
                    ELSE EmptyText
    IN  IF has /\ (now - existing.createdAt) < CACHE_TTL_SEC * 1000
        THEN Generate(SetH(S, p, [h EXCEPT !.cacheName = existing.name]), p)
        ELSE IF CACHE_TTL_SEC <= 0 \/ roughTokens(summary) < MIN_CACHE_TOKENS
        THEN Generate(SetH(S, p, [h EXCEPT !.cacheName = 0]), p)
        ELSE call(SetH(S, p, [h EXCEPT !.summaryText = summary]), p, "cache.create[A]")

RoleLen(role) == IF role = "model" THEN 5 ELSE 4

\* `${privText}\n---\n${sharedText}`
CombinedLen(priv, shared) ==
    JoinLen([k \in 1..Len(priv) |-> RoleLen(priv[k].role) + 2 + priv[k].text.len])
    + 5
    + JoinLen([k \in 1..Len(shared) |-> 2 + shared[k].speaker.len + 3 + shared[k].text.len])

SUMMARY_TOKENS == 6000

\* summarizeIfNeeded(sk, channelId), up to its await
summarizeIfNeeded(S, p) ==
    LET h      == H(S, p)
        S1     == getSharedHist(getUserHist(S, h.sk), h.channelId)
        priv   == S1.userMemory[h.sk]
        shared == S1.sharedMemory[h.channelId]
    IN  IF Len(priv) <= MAX_TURNS_PRIVATE
           /\ roughTokens(Text(<<>>, CombinedLen(priv, shared))) < SUMMARY_TOKENS
        THEN ensureSessionCache(S1, p)
        ELSE call(SetH(S1, p, [H(S1, p) EXCEPT !.priv = priv, !.privLive = TRUE]),
                  p, "summarize")

\* summarizeIfNeeded after the await: the call returned res
Summarized(S, p, text) ==
    LET h       == H(S, p)
        summary == SliceHead(text, 4000)
        S1      == IF summary.len > 0
                   THEN [S EXCEPT !.sessionSummary = MapSet(@, h.sk, summary)]
                   ELSE S
        tail    == ArraySlice(h.priv, 0 - 4)
        S2      == [S1 EXCEPT !.userMemory = MapSet(@, h.sk, tail),
                              !.handlers = Replaced(@, h.sk)]
    IN  ensureSessionCache(SetH(S2, p, [H(S2, p) EXCEPT !.priv = <<>>]), p)

\* sessionCache.set(sk, {name, createdAt}) after either creation call
CacheStored(S, p) ==
    LET h    == H(S, p)
        name == Len(S.cacheSeq) + 1
        S1   == [S EXCEPT !.cacheSeq = Append(@, h.summaryText),
                          !.sessionCache = MapSet(@, h.sk, [name |-> name, createdAt |-> now])]
    IN  Generate(SetH(S1, p, [h EXCEPT !.cacheName = name]), p)

\* collectRecentImagesFromChannel, up to its await
collectRecentImagesFromChannel(S, p) ==
    IF ~IMAGE_CTX_FROM_CHANNEL \/ ~IMAGE_FETCH
    THEN summarizeIfNeeded(S, p)
    ELSE SetH(S, p, [H(S, p) EXCEPT !.pc = "recentImages"])

\* pushUserTurn, pushSharedTurn and buildChannelContext up to its await
Record(S, p) ==
    LET h  == H(S, p)
        S1 == pushSharedTurn(pushUserTurn(S, h.sk, "user", h.prompt),
                             h.channelId, h.nick, h.prompt)
    IN  SetH(S1, p, [H(S1, p) EXCEPT !.pc = "channelCtx"])

\* collectImagePartsFromMessage(msg), up to its await: the download of the
\* attachment
collectImagePartsFromMessage(S, p) ==
    IF ~IMAGE_FETCH \/ H(S, p).msg.attachments = 0
    THEN Record(S, p)
    ELSE SetH(S, p, [H(S, p) EXCEPT !.pc = "attachment"])

(***************************************************************************)
(* GeminiPool.call(fn): what follows the await of fn(c, lbl).              *)
(***************************************************************************)
Outcome(S, p, o) ==
    SetH(S, p, [H(S, p) EXCEPT !.outcomes = Append(@, o),
                               !.nRej = IF o = NoError THEN @ ELSE @ + 1,
                               !.lastRej = IF o = NoError THEN @ ELSE o])

\* a failed creation call of the second shape reaches the handler's catch
ThrewCacheFatal(S, p, e) ==
    LET h == H(S, p)
    IN  CASE h.op = "summarize" ->
                ensureSessionCache(
                    SetH(S, p, [h EXCEPT !.priv = <<>>, !.privLive = FALSE]), p)
          [] h.op = "cache.create[A]" -> call(S, p, "cache.create[B]")
          [] OTHER -> Catch(S, p, e, "generate")

\* a failed summarization call reaches the handler's catch
ThrewSummarizeFatal(S, p, e) ==
    LET h == H(S, p)
    IN  CASE h.op = "cache.create[A]" -> call(S, p, "cache.create[B]")
          [] h.op = "cache.create[B]" ->
                Generate(SetH(S, p, [h EXCEPT !.cacheName = 0]), p)
          [] OTHER -> Catch(S, p, e, "generate")

\* call() threw e to its caller
Threw(S, p, e) ==
    LET h == H(S, p)
    IN  CASE h.op = "summarize" ->
                ensureSessionCache(
                    SetH(S, p, [h EXCEPT !.priv = <<>>, !.privLive = FALSE]), p)
          [] h.op = "cache.create[A]" -> call(S, p, "cache.create[B]")
          [] h.op = "cache.create[B]" ->
                Generate(SetH(S, p, [h EXCEPT !.cacheName = 0]), p)
          [] OTHER -> Catch(S, p, e, "generate")

\* no second pass
NextAttemptGivesUp(S, p, lastErr) == Threw(S, p, lastErr)

\* continue: the next pass of the loop, up to the await of fn(c, lbl)
NextAttempt(S, p, lastErr) ==
    LET h       == H(S, p)
        attempt == h.attempt + 1
        i       == _findAvailableIndex(S)
    IN  IF attempt < PoolSize(S) /\ i \notin h.tried
        THEN SetH(S, p, Invoke(S, [h EXCEPT !.attempt = attempt], i))
        ELSE Threw(S, p, lastErr)

\* every error is retried
callCatchRetriesAll(S, p, e) ==
    LET i == H(S, p).cur
    IN  IF PoolSize(S) > 1
        THEN NextAttempt(_markExhausted(S, i), p, e)
        ELSE Threw(S, p, e)

\* the failed client is not marked before the retry
callCatchNoMark(S, p, e) ==
    IF _isQuotaError(e) /\ PoolSize(S) > 1
    THEN NextAttempt(S, p, e)
    ELSE Threw(S, p, e)

\* the client is marked whatever the error is
callCatchMarksAll(S, p, e) ==
    LET i == H(S, p).cur
    IN  IF _isQuotaError(e) /\ PoolSize(S) > 1
        THEN NextAttempt(_markExhausted(S, i), p, e)
        ELSE Threw(_markExhausted(S, i), p, e)

\* catch (e) inside the loop
callCatch(S, p, e) ==
    LET i == H(S, p).cur
    IN  IF _isQuotaError(e) /\ PoolSize(S) > 1
        THEN NextAttempt(_markExhausted(S, i), p, e)
        ELSE Threw(S, p, e)

(***************************************************************************)
(* Events.                                                                 *)
(***************************************************************************)
Undefined == Text(<<"undefined">>, 0)

\* a Discord user: the fields the display name is resolved from (empty when
\* the field is not set)
Profile(u) ==
    IF u = "u1"
    THEN [nickname |-> Text(<<"Lord">>, 4), displayName |-> Text(<<"Lord">>, 4),
          globalName |-> Text(<<"Jan">>, 3), username |-> Text(<<"jan">>, 3)]
    ELSE [nickname |-> EmptyText, displayName |-> EmptyText,
          globalName |-> EmptyText, username |-> Text(<<"ola">>, 3)]

FALLBACK_NICK == Text(<<"Uzytkownik">>, 10)

userNickFromInteraction(u) ==
    LET m == Profile(u)
    IN  IF m.nickname.len > 0 THEN m.nickname
        ELSE IF m.displayName.len > 0 THEN m.displayName
        ELSE IF m.globalName.len > 0 THEN m.globalName
        ELSE IF m.username.len > 0 THEN m.username
        ELSE FALLBACK_NICK

userNickFromMessage(u) ==
    LET m == Profile(u)
    IN  IF m.displayName.len > 0 THEN m.displayName
        ELSE IF m.globalName.len > 0 THEN m.globalName
        ELSE IF m.username.len > 0 THEN m.username
        ELSE FALLBACK_NICK

\* the invocation gets the lowest slot that holds no invocation in flight
Free(p) ==
    /\ handlers[p].pc \in {"idle", "done"}
    /\ \A q \in Procs : q < p => handlers[q].pc \notin {"idle", "done"}

\* the cache handle is kept
ResetSessionKeepsCache(S, sk) ==
    [S EXCEPT !.userMemory = MapDelete(@, sk),
              !.sessionSummary = MapDelete(@, sk),
              !.handlers = Replaced(@, sk)]

\* the shared window of the channel is deleted too
ResetSessionClearsChannel(S, sk) ==
    [S EXCEPT !.userMemory = MapDelete(@, sk),
              !.sessionSummary = MapDelete(@, sk),
              !.sessionCache = MapDelete(@, sk),
              !.sharedMemory = MapDelete(@, sk[1]),
              !.handlers = Replaced(@, sk)]

\* gemini-reset: the three deletes
ResetSession(S, sk) ==
    [S EXCEPT !.userMemory = MapDelete(@, sk),
              !.sessionSummary = MapDelete(@, sk),
              !.sessionCache = MapDelete(@, sk),
              !.handlers = Replaced(@, sk)]

\* client.on(Events.InteractionCreate): a chat-input command arrives
InteractionCreate(p, c, u, commandName, userPrompt) ==
    /\ Free(p)
    /\ started < MaxStarted
    /\ started' = started + 1
    /\ LET sk == <<c, u>>
           h  == [IdleHandler EXCEPT !.kind = commandName, !.sk = sk, !.channelId = c,
                                     !.nick = userNickFromInteraction(u)]
       IN  IF commandName = "gemini-reset"
           THEN Becomes(SetH(ResetSession(Cur, sk), p,
                    [h EXCEPT !.pc = "resetReply",
                              !.outbox = <<Msg("reply", RESET_DONE)>>,
                              !.cleared = {m \in {"userMemory", "sessionSummary", "sessionCache"} :
                                              MapHas(Cur[m], sk)}]))
           ELSE Becomes(SetH(Cur, p, [h EXCEPT !.pc = "deferReply", !.prompt = userPrompt]))
    /\ UNCHANGED <<env, now>>

(***************************************************************************)
(* The trigger guard of the message handler.  The content of a message is  *)
(* a sequence of characters; the id of the bot's user is one element.      *)
(***************************************************************************)
PREFIXES == << <<"g", "e", "m", "i", "n", "i">>, <<"r", "i", "c", "k", "y">>,
              <<"r", "i", "c", "k">> >>

\* client.user.id
BOT_ID == "42"

\* ch.toLowerCase()
ToLowerCase(ch) ==
    CASE ch = "R" -> "r" [] ch = "I" -> "i" [] ch = "C" -> "c" [] ch = "K" -> "k"
      [] ch = "Y" -> "y" [] ch = "G" -> "g" [] ch = "E" -> "e" [] ch = "M" -> "m"
      [] ch = "N" -> "n" [] ch = "H" -> "h" [] OTHER -> ch

Lower(s) == [k \in 1..Len(s) |-> ToLowerCase(s[k])]

\* s.trim()
Trim(s) ==
    LET inked == {k \in 1..Len(s) : s[k] # " "}
    IN  IF inked = {} THEN <<>>
        ELSE SubSeq(s, CHOOSE a \in inked : \A k \in inked : a <= k,
                       CHOOSE b \in inked : \A k \in inked : k <= b)

\* s.startsWith(w)
StartsWith(s, w) == Len(s) >= Len(w) /\ SubSeq(s, 1, Len(w)) = w

\* the length of the match of ^<@!?ID> in s, 0 when there is none
MentionLen(s) ==
    IF StartsWith(s, <<"<", "@", BOT_ID, ">">>) THEN 4
    ELSE IF StartsWith(s, <<"<", "@", "!", BOT_ID, ">">>) THEN 5
    ELSE 0

\* PREFIXES.find(p => lower.startsWith(p)): its index, 0 for undefined
MatchedPrefix(raw) ==
    LET hits == {k \in 1..Len(PREFIXES) : StartsWith(Lower(raw), PREFIXES[k])}
    IN  IF hits = {} THEN 0 ELSE CHOOSE a \in hits : \A k \in hits : a <= k

\* s.replace(/^[:\-,.\s]+/, '')
StripLead(s) ==
    LET kept == {k \in 1..Len(s) : s[k] \notin {":", "-", ",", ".", " "}}
    IN  IF kept = {} THEN <<>>
        ELSE SubSeq(s, CHOOSE a \in kept : \A k \in kept : a <= k, Len(s))

\* every message type but Default and Reply
IsSystemish(m) == m.type \notin {"Default", "Reply"}

\* replies to every message that is not of a system type and has content
\* or an attachment
TriggersWithoutPrefix(m) ==
    LET raw == Trim(m.content)
    IN  /\ ~IsSystemish(m)
        /\ ~(~REACT_TO_NONUSER /\ (m.bot \/ m.webhookId \/ m.applicationId))
        /\ ~(raw = <<>> /\ m.attachments = 0)

\* the guard of the message handler: the handler goes on to sendTyping
Triggers(m) ==
    LET raw == Trim(m.content)
    IN  /\ ~IsSystemish(m)
        /\ ~(~REACT_TO_NONUSER /\ (m.bot \/ m.webhookId \/ m.applicationId))
        /\ ~(raw = <<>> /\ m.attachments = 0)
        /\ ~(~m.isDM /\ MentionLen(raw) = 0 /\ MatchedPrefix(raw) = 0)

\* the prompt the handler takes from the message
PromptOf(m) ==
    LET raw  == Trim(m.content)
        k    == MatchedPrefix(raw)
        rest == IF k # 0 THEN SubSeq(raw, Len(PREFIXES[k]) + 1, Len(raw))
                ELSE SubSeq(raw, MentionLen(raw) + 1, Len(raw))
        text == Trim(StripLead(rest))
    IN  Text(text, Len(text))

\* mediaNote after a download that succeeded, and after one that failed,
\* with the two line breaks that join it to the prompt
NOTE_ATTACHED == Text(<<"(zalaczono obraz)">>, 26)
NOTE_FAILED   == Text(<<"(blad pobrania obrazu)">>, 31)

\* client.on(Events.MessageCreate): a message that passes the trigger guard
MessageCreate(p, c, u, prompt) ==
    /\ Free(p)
    /\ started < MaxStarted
    /\ started' = started + 1
    /\ Becomes(SetH(Cur, p, [IdleHandler EXCEPT
            !.kind = "message", !.sk = <<c, u>>, !.channelId = c,
            !.nick = userNickFromMessage(u), !.prompt = prompt,
            !.pc = "sendTyping"]))
    /\ UNCHANGED <<env, now>>

\* client.on(Events.MessageCreate): message m arrives; nothing happens
\* when the guard returns
MessageReceived(p, c, u, m) ==
    /\ Free(p)
    /\ started < MaxStarted
    /\ Triggers(m)
    /\ started' = started + 1
    /\ Becomes(SetH(Cur, p, [IdleHandler EXCEPT
            !.kind = "message", !.sk = <<c, u>>, !.channelId = c,
            !.nick = userNickFromMessage(u), !.prompt = PromptOf(m),
            !.msg = m, !.pc = "sendTyping"]))
    /\ UNCHANGED <<env, now>>

\* the download of the attachment succeeds
AttachmentFetched(p) ==
    /\ handlers[p].pc = "attachment"
    /\ Becomes(Record(SetH(Cur, p,
            [handlers[p] EXCEPT !.extraImageParts = <<ImagePart(0)>>,
                                !.prompt = Concat(@, NOTE_ATTACHED)]), p))
    /\ UNCHANGED <<env, now, started>>

\* the download of the attachment fails
AttachmentFailed(p) ==
    /\ handlers[p].pc = "attachment"
    /\ Becomes(Record(SetH(Cur, p,
            [handlers[p] EXCEPT !.prompt = Concat(@, NOTE_FAILED)]), p))
    /\ UNCHANGED <<env, now, started>>

Sent(S, p) ==
    SetH(S, p, [H(S, p) EXCEPT !.outbox = Tail(@)])

\* an awaited gateway call (reply, deferReply, editReply, followUp,
\* sendTyping, send, edit, messages.fetch) resolves; a fetch of the channel
\* resolves with no message
GatewayResolved(p) ==
    /\ LET h == handlers[p]
       IN  CASE h.pc = "deferReply" -> Becomes(Record(Cur, p))
             [] h.pc = "sendTyping" -> Becomes(collectImagePartsFromMessage(Cur, p))
             [] h.pc = "channelCtx" -> Becomes(collectRecentImagesFromChannel(Cur, p))
             [] h.pc = "recentImages" -> Becomes(summarizeIfNeeded(Cur, p))
             [] h.pc \in {"placeholder", "streamEdit"} ->
                    Becomes(SetH(Sent(Cur, p), p,
                        [H(Sent(Cur, p), p) EXCEPT !.pc = "stream",
                            !.lastEdit = IF h.pc = "streamEdit" THEN now ELSE @]))
             [] h.pc = "emit" -> Becomes(Emit(Sent(Cur, p), p, Tail(h.outbox)))
             [] h.pc \in {"errorReply", "resetReply"} -> Becomes(Done(Sent(Cur, p), p))
             [] OTHER -> FALSE
    /\ UNCHANGED <<env, now, started>>

\* an awaited gateway call fails
GatewayRejected(p) ==
    /\ LET h == handlers[p]
       IN  CASE h.pc \in {"deferReply", "resetReply"} -> Becomes(Rejected(Cur, p, EGateway))
             [] h.pc = "errorReply" ->
                    IF h.kind = "gemini" THEN Becomes(Rejected(Cur, p, EGateway))
                    ELSE Becomes(Done(Cur, p))
             [] h.pc = "channelCtx" -> Becomes(collectRecentImagesFromChannel(Cur, p))
             [] h.pc \in {"sendTyping", "recentImages", "placeholder", "streamEdit", "emit"} ->
                    Becomes(Catch(Cur, p, EGateway, "gateway"))
             [] OTHER -> FALSE
    /\ UNCHANGED <<env, now, started>>

InCall(p, ops) == handlers[p].pc = "call" /\ handlers[p].op \in ops

\* buildChannelContext returns a snapshot of the channel's history
ChannelContextFetched(p, snapshot) ==
    /\ handlers[p].pc = "channelCtx"
    /\ Becomes(collectRecentImagesFromChannel(
            SetH(Cur, p, [handlers[p] EXCEPT !.channelCtx = snapshot]), p))
    /\ UNCHANGED <<env, now, started>>

\* collectRecentImagesFromChannel returns the images it could download
RecentImagesFetched(p, parts) ==
    /\ handlers[p].pc = "recentImages"
    /\ Becomes(summarizeIfNeeded(
            SetH(Cur, p, [handlers[p] EXCEPT !.extraImageParts = @ \o parts]), p))
    /\ UNCHANGED <<env, now, started>>

\* fn(c, lbl) of the summarization call resolves with res
SummarizeResolved(p, text) ==
    /\ InCall(p, {"summarize"})
    /\ Becomes(Summarized(Outcome(Cur, p, NoError), p,
                          IF text = Undefined THEN EmptyText ELSE text))
    /\ UNCHANGED <<env, now, started>>

\* fn(c, lbl) of a cache-creation call resolves with a new cache object
CacheCreated(p) ==
    /\ InCall(p, {"cache.create[A]", "cache.create[B]"})
    /\ Becomes(CacheStored(Outcome(Cur, p, NoError), p))
    /\ UNCHANGED <<env, now, started>>

\* fn(c, lbl) of generateContentStream resolves with the stream
StreamOpened(p) ==
    /\ InCall(p, {"generateContentStream"})
    /\ LET S == Outcome(Cur, p, NoError)
           h == [H(S, p) EXCEPT !.accum = EmptyText, !.lastEdit = now, !.nChunks = 0]
       IN  IF h.kind = "gemini"
           THEN Becomes(SetH(S, p, [h EXCEPT !.pc = "stream"]))
           ELSE Becomes(SetH(S, p, [h EXCEPT !.pc = "placeholder",
                                       !.outbox = <<Msg("reply", PLACEHOLDER_WAIT)>>]))
    /\ UNCHANGED <<env, now, started>>

\* fn(c, lbl) of generateContent resolves with res
GenerateResolved(p, text) ==
    /\ InCall(p, {"generateContent"})
    /\ Becomes(Answer(Outcome(Cur, p, NoError), p,
                      IF text = Undefined THEN NO_CONTENT ELSE text))
    /\ UNCHANGED <<env, now, started>>

\* fn(c, lbl) rejects with e
CallRejected(p, e) ==
    /\ handlers[p].pc = "call"
    /\ Becomes(callCatch(Outcome(Cur, p, e), p, e))
    /\ UNCHANGED <<env, now, started>>

\* for await (const chunk of stream): the next fragment
StreamChunk(p, text) ==
    /\ handlers[p].pc = "stream"
    /\ handlers[p].nChunks < MaxChunks
    /\ LET h     == handlers[p]
           accum == Concat(h.accum, IF text = Undefined THEN EmptyText ELSE text)
           h1    == [h EXCEPT !.accum = accum, !.nChunks = @ + 1]
       IN  IF h.kind = "gemini"
           THEN IF now - h.lastEdit > 600
                THEN Becomes(SetH(Cur, p, [h1 EXCEPT !.pc = "streamEdit",
                        !.outbox = <<Msg("editReply",
                            IF accum.len = 0 THEN PLACEHOLDER_WAIT
                            ELSE SliceHead(accum, 1900))>>]))
                ELSE Becomes(SetH(Cur, p, h1))
           ELSE IF now - h.lastEdit > 900
                THEN Becomes(SetH(Cur, p, [h1 EXCEPT !.pc = "streamEdit",
                        !.outbox = <<Msg("edit", SliceHead(accum, 2000))>>]))
                ELSE Becomes(SetH(Cur, p, h1))
    /\ UNCHANGED <<env, now, started>>

\* the stream ends
StreamEnd(p) ==
    /\ handlers[p].pc = "stream"
    /\ LET accum == handlers[p].accum
       IN  Becomes(Answer(Cur, p, IF accum.len = 0 THEN PLACEHOLDER_EMPTY ELSE accum))
    /\ UNCHANGED <<env, now, started>>

\* the text accumulated so far is recorded when the stream throws
StreamErrorStoresPartial(p, e) ==
    /\ handlers[p].pc = "stream"
    /\ LET h  == handlers[p]
           S1 == pushSharedTurn(pushUserTurn(Cur, h.sk, "model", h.accum),
                                h.channelId, RICKY, h.accum)
       IN  Becomes(Catch(S1, p, e, "stream"))
    /\ UNCHANGED <<env, now, started>>

\* the stream throws while it is consumed
StreamError(p, e) ==
    /\ handlers[p].pc = "stream"
    /\ Becomes(Catch(Cur, p, e, "stream"))
    /\ UNCHANGED <<env, now, started>>

\* time passes
Tick ==
    /\ now < MaxTicks * 1000
    /\ now' = now + 1000
    /\ UNCHANGED <<env, userMemory, sharedMemory, sessionSummary, sessionCache,
                   clients, idx, cacheSeq, handlers, started, chunkArg, chunkOut>>

\* recordTurn: a turn is recorded in the private window of sk and in the
\* shared window of its channel, with no handler in between; the text of
\* the n-th recorded turn is n
RecordTurn(c, u, role) ==
    /\ started < MaxRecorded
    /\ started' = started + 1
    /\ LET text == Text(<<started + 1>>, 1)
       IN  Becomes(pushSharedTurn(pushUserTurn(Cur, <<c, u>>, role, text), c,
                       IF role = "model" THEN RICKY ELSE userNickFromInteraction(u), text))
    /\ UNCHANGED <<env, now>>

(***************************************************************************)
(* Inputs.                                                                 *)
(***************************************************************************)
HELLO     == Text(<<"hello">>, 5)
Prompts   == {HELLO}
SHORT     == Text(<<"ok">>, 2)
LONG      == Text(<<"long">>, 12000)
SUMMARY   == Text(<<"summary">>, 40)
SMALL     == Text(<<"small summary">>, 36)
\* an answer that brings the estimate of two turns to 6000 tokens
EDGE      == Text(<<"edge">>, 11975)
\* what client i answers
AnswerOf(i) == Text(<<"answer of", i>>, 2)

EnvNames == {"MEM_TURNS_PRIVATE", "MEM_TURNS_SHARED", "GEMINI_CACHE_TTL_SEC",
             "GEMINI_MIN_CACHE_TOKENS", "GEMINI_FAILOVER_COOLDOWN_SEC",
             "IMAGE_FETCH", "IMAGE_CTX_FROM_CHANNEL", "GEMINI_STREAM",
             "REACT_TO_NONUSER_MESSAGES"}

\* no variable set
DefaultEnv == [n \in EnvNames |-> {}]
With(e, name, v) == [e EXCEPT ![name] = {v}]

\* chunkForDiscord has not been called on its own
NoChunkArg == [text |-> EmptyText, limit |-> 2000]

\* chunkForDiscord(text, limit) called on its own
Chunk ==
    /\ chunkOut = <<>>
    /\ chunkOut' = chunkForDiscord(chunkArg.text, chunkArg.limit)
    /\ UNCHANGED <<env, now, userMemory, sharedMemory, sessionSummary, sessionCache,
                   clients, idx, cacheSeq, handlers, started, chunkArg>>

Loaded(envs, keys) ==
    /\ env \in envs
    /\ now = 0
    /\ userMemory = EmptyMap
    /\ sharedMemory = EmptyMap
    /\ sessionSummary = EmptyMap
    /\ sessionCache = EmptyMap
    /\ \E k \in keys : clients = GeminiPool(k)
    /\ idx = 0
    /\ cacheSeq = <<>>
    /\ handlers = [p \in Procs |-> IdleHandler]
    /\ started = 0

InitWith(envs, keys) ==
    /\ chunkArg = NoChunkArg
    /\ chunkOut = <<>>
    /\ Loaded(envs, keys)


(***************************************************************************)
(* Spec: the session store under the slash commands.  Two invocations may  *)
(* be in flight; the upstream API and the gateway answer every call; the   *)
(* answers are not streamed; a summary of 10 tokens is worth caching.      *)
(***************************************************************************)
Envs ==
    LET base == With(With(DefaultEnv, "GEMINI_STREAM", FALSE),
                     "GEMINI_MIN_CACHE_TOKENS", 10)
    IN  {With(With(base, "MEM_TURNS_PRIVATE", m), "MEM_TURNS_SHARED", m) : m \in {0, 2}}

Init == InitWith(Envs, {<<TRUE, FALSE>>})

Next ==
    \/ \E p \in Procs, c \in Channels, t \in Prompts :
          InteractionCreate(p, c, "u1", "gemini", t)
    \/ \E p \in Procs, c \in Channels :
          InteractionCreate(p, c, "u1", "gemini-reset", EmptyText)
    \/ \E p \in Procs : GatewayResolved(p)
    \/ \E p \in Procs, t \in {Undefined, SUMMARY} : SummarizeResolved(p, t)
    \/ \E p \in Procs : CacheCreated(p)
    \/ \E p \in Procs, t \in {SHORT, LONG} : GenerateResolved(p, t)

Spec == Init /\ [][Next]_vars

(***************************************************************************)
(* SpecRecord: turns recorded one after the other for one session key,     *)
(* for several configured maxima.                                          *)
(***************************************************************************)
RecordEnvs ==
    {With(With(DefaultEnv, "MEM_TURNS_PRIVATE", m), "MEM_TURNS_SHARED", n) :
        m \in 0..3, n \in 0..3}

InitRecord == InitWith(RecordEnvs, {<<TRUE, FALSE>>})

NextRecord == \E c \in Channels, role \in {"user", "model"} : RecordTurn(c, "u1", role)

SpecRecord == InitRecord /\ [][NextRecord]_vars

(***************************************************************************)
(* SpecPool: the failover pool under concurrent generation calls, with     *)
(* one or two clients, a cooldown of zero or two seconds and a clock.      *)
(***************************************************************************)
PoolEnvs ==
    {With(With(With(With(DefaultEnv, "GEMINI_STREAM", FALSE),
                    "GEMINI_FAILOVER_COOLDOWN_SEC", sec),
               "MEM_TURNS_PRIVATE", 2), "MEM_TURNS_SHARED", 2) : sec \in {0, 2}}

KeyConfigs == {<<TRUE, TRUE>>, <<TRUE, FALSE>>, <<FALSE, TRUE>>}

InitPool == InitWith(PoolEnvs, KeyConfigs)

NextPool ==
    \/ \E p \in Procs, c \in Channels, t \in Prompts :
          started < MaxCalls /\ InteractionCreate(p, c, "u1", "gemini", t)
    \/ \E p \in Procs : GatewayResolved(p)
    \/ \E p \in Procs : GenerateResolved(p, AnswerOf(handlers[p].cur))
    \/ \E p \in Procs, e \in UpstreamErrors : CallRejected(p, e)
    \/ Tick

SpecPool == InitPool /\ [][NextPool]_vars

(***************************************************************************)
(* SpecStream: streamed answers on both handlers with a pool of two        *)
(* clients; the stream may fail while it is consumed.                      *)
(***************************************************************************)
StreamEnvs ==
    {With(With(With(DefaultEnv, "GEMINI_FAILOVER_COOLDOWN_SEC", 2),
               "MEM_TURNS_PRIVATE", 2), "MEM_TURNS_SHARED", 2)}

InitStream == InitWith(StreamEnvs, {<<TRUE, TRUE>>})

NextStream ==
    \/ \E p \in Procs, c \in Channels, t \in Prompts :
          started < MaxCalls /\ InteractionCreate(p, c, "u1", "gemini", t)
    \/ \E p \in Procs, c \in Channels, t \in Prompts :
          started < MaxCalls /\ MessageCreate(p, c, "u1", t)
    \/ \E p \in Procs : GatewayResolved(p)
    \/ \E p \in Procs : StreamOpened(p)
    \/ \E p \in Procs : StreamChunk(p, SHORT)
    \/ \E p \in Procs : StreamEnd(p)
    \/ \E p \in Procs : StreamError(p, E429)
    \/ \E p \in Procs : CallRejected(p, E429)
    \/ Tick

SpecStream == InitStream /\ [][NextStream]_vars

(***************************************************************************)
(* Claims about the session memory store.                                  *)
(***************************************************************************)

\* C1: every stored private window has length <= MEM_TURNS_PRIVATE and every
\* stored shared window has length <= MEM_TURNS_SHARED, whatever integer the
\* configuration gives (0 included).
WindowsWithinMax ==
    /\ \A sk \in DOMAIN userMemory : Len(userMemory[sk]) <= MAX_TURNS_PRIVATE
    /\ \A c \in DOMAIN sharedMemory : Len(sharedMemory[c]) <= MAX_TURNS_SHARED

\* the texts of the last max of started recorded turns
LastRecorded(max) == [j \in 1..max |-> Text(<<started - max + j>>, 1)]
Texts(window) == [j \in 1..Len(window) |-> window[j].text]

\* C2: after N > max turns recorded one after the other for a key whose
\* window was empty, the stored window holds exactly the last max recorded
\* turns, in their order.
WindowIsLastMaxRecorded ==
    /\ \A sk \in DOMAIN userMemory :
          started > MAX_TURNS_PRIVATE =>
             Texts(userMemory[sk]) = LastRecorded(MAX_TURNS_PRIVATE)
    /\ \A c \in DOMAIN sharedMemory :
          started > MAX_TURNS_SHARED =>
             Texts(sharedMemory[c]) = LastRecorded(MAX_TURNS_SHARED)

InFlight(q) == handlers[q].pc \notin {"idle", "done"}

\* the step in which handler p handles gemini-reset
ResetHandled(p) == handlers[p].pc # "resetReply" /\ handlers'[p].pc = "resetReply"

\* C3: when gemini-reset for key K is handled and no other handler for K is
\* in flight, then right afterwards the three maps have no entry for K, and
\* the next read of K's window gives an empty array.
ResetClearsSession ==
    [][\A p \in Procs :
          (/\ ResetHandled(p)
           /\ \A q \in Procs \ {p} : ~(InFlight(q) /\ handlers[q].sk = handlers'[p].sk))
          => LET K == handlers'[p].sk
             IN  /\ K \notin DOMAIN userMemory'
                 /\ K \notin DOMAIN sessionSummary'
                 /\ K \notin DOMAIN sessionCache'
                 /\ getUserHist(Cur', K).userMemory[K] = <<>>]_vars

\* a reset that found a window, a summary and a cache handle for its key
ResetClearsSessionWitness ==
    \E p \in Procs :
        /\ handlers[p].pc = "resetReply"
        /\ handlers[p].cleared = {"userMemory", "sessionSummary", "sessionCache"}
        /\ \A q \in Procs \ {p} : ~InFlight(q)
        /\ handlers[p].sk \notin
              (DOMAIN userMemory) \cup (DOMAIN sessionSummary) \cup (DOMAIN sessionCache)

(***************************************************************************)
(* SpecCache: slash commands handled one after the other with a cache TTL  *)
(* of two seconds and a floor of 10 tokens; the summarization and the      *)
(* cache-creation calls may fail; one client in the pool.                  *)
(***************************************************************************)
CacheEnvs ==
    {With(With(With(With(With(DefaultEnv, "GEMINI_STREAM", FALSE),
                         "GEMINI_MIN_CACHE_TOKENS", 10),
                    "GEMINI_CACHE_TTL_SEC", 2),
               "MEM_TURNS_PRIVATE", 2), "MEM_TURNS_SHARED", 2)}

InitCache == InitWith(CacheEnvs, {<<TRUE, FALSE>>})

\* no handler invocation is in flight
Quiet == \A q \in Procs : handlers[q].pc \in {"idle", "done"}

NextCache ==
    \/ \E p \in Procs, c \in Channels, t \in Prompts :
          Quiet /\ InteractionCreate(p, c, "u1", "gemini", t)
    \/ \E p \in Procs : GatewayResolved(p)
    \/ \E p \in Procs, t \in {Undefined, SMALL, SUMMARY} : SummarizeResolved(p, t)
    \/ \E p \in Procs : CacheCreated(p)
    \/ \E p \in Procs, t \in {SHORT, EDGE, LONG} : GenerateResolved(p, t)
    \/ \E p \in Procs :
          InCall(p, {"summarize", "cache.create[A]", "cache.create[B]"})
          /\ \E e \in {E429, E500} : CallRejected(p, e)
    \/ Tick

SpecCache == InitCache /\ [][NextCache]_vars

(***************************************************************************)
(* SpecReply: both handlers, one invocation at a time, under the default   *)
(* configuration with the answers streamed or not; answers may exceed one  *)
(* message; every gateway call and every upstream call may fail.           *)
(***************************************************************************)
ReplyEnvs == {DefaultEnv, With(DefaultEnv, "GEMINI_STREAM", FALSE)}

InitReply == InitWith(ReplyEnvs, {<<TRUE, FALSE>>})

NextReply ==
    \/ \E p \in Procs, c \in Channels, t \in Prompts :
          Quiet /\ started < MaxCalls /\ InteractionCreate(p, c, "u1", "gemini", t)
    \/ \E p \in Procs, c \in Channels :
          Quiet /\ started < MaxCalls
                /\ InteractionCreate(p, c, "u1", "gemini-reset", EmptyText)
    \/ \E p \in Procs, c \in Channels, t \in Prompts :
          Quiet /\ started < MaxCalls /\ MessageCreate(p, c, "u1", t)
    \/ \E p \in Procs : GatewayResolved(p)
    \/ \E p \in Procs : GatewayRejected(p)
    \/ \E p \in Procs : SummarizeResolved(p, SUMMARY)
    \/ \E p \in Procs : StreamOpened(p)
    \/ \E p \in Procs, t \in {SHORT, LONG} : StreamChunk(p, t)
    \/ \E p \in Procs : StreamEnd(p)
    \/ \E p \in Procs : StreamError(p, E500)
    \/ \E p \in Procs, t \in {SHORT, LONG} : GenerateResolved(p, t)
    \/ \E p \in Procs : CallRejected(p, E500)
    \/ Tick

SpecReply == InitReply /\ [][NextReply]_vars

(***************************************************************************)
(* SpecChunk: chunkForDiscord on texts of 0..MaxLen distinct characters    *)
(* and limits 1..MaxLimit.                                                 *)
(***************************************************************************)
Chars(len) == Text([k \in 1..len |-> k], len)

InitChunk ==
    /\ chunkArg \in [text : {Chars(len) : len \in 0..MaxLen}, limit : 1..MaxLimit]
    /\ chunkOut = <<>>
    /\ Loaded({DefaultEnv}, {<<TRUE, FALSE>>})

NextChunk == Chunk

SpecChunk == InitChunk /\ [][NextChunk]_vars

(***************************************************************************)
(* Claims about the failover pool.                                         *)
(***************************************************************************)
n == Cardinality(DOMAIN clients)
Range(f) == {f[k] : k \in DOMAIN f}
Last(q) == q[Len(q)]

\* the step in which fn invoked by handler p rejects, and the error
Failed(p) ==
    /\ handlers[p].pc = "call"
    /\ handlers'[p].nRej = handlers[p].nRej + 1
FailedWith(p) == handlers'[p].lastRej

\* the step in which handler p invokes fn on a client
Invoked(p) == handlers'[p].nInv = handlers[p].nInv + 1

\* C4: in a pool of two with a positive cooldown, when the first selected
\* client fails with a quota error the same call() invokes fn on the other
\* client, and when that one succeeds the call returns its result: nothing
\* is thrown and fn ran once on each client.
FailoverReturnsSecondResult ==
    \A p \in Procs :
        LET h == handlers[p]
        IN  (n = 2 /\ FAILOVER_COOLDOWN_MS > 0
                   /\ h.op = "generateContent" /\ h.outcomes # <<>>
                   /\ _isQuotaError(h.outcomes[1]))
            => /\ Len(h.outcomes) = 1 =>
                    h.pc = "call" /\ h.log = <<h.log[1], 1 - h.log[1]>>
               /\ (Len(h.outcomes) = 2 /\ h.outcomes[2] = NoError) =>
                    /\ h.pc = "emit"
                    /\ h.log = <<h.log[1], 1 - h.log[1]>>
                    /\ h.err = NoError
                    /\ h.outbox = <<Msg("editReply", AnswerOf(h.log[2]))>>

FailoverReturnsSecondResultWitness ==
    \E p \in Procs :
        /\ n = 2 /\ FAILOVER_COOLDOWN_MS > 0
        /\ handlers[p].pc = "emit"
        /\ Len(handlers[p].outcomes) = 2
        /\ _isQuotaError(handlers[p].outcomes[1])
        /\ handlers[p].outcomes[2] = NoError

\* C5 as it was claimed: no call() ever invokes fn on a client that is
\* within its cooldown.
NeverInvokedDuringCooldown == \A p \in Procs : ~handlers[p].selExhausted

\* C5: a call() invokes fn on a client that is within its cooldown only when
\* every client of the pool is within its cooldown at that moment.
InvokedDuringCooldownOnlyIfAllExhausted ==
    [][\A p \in Procs :
          (Invoked(p) /\ clients'[handlers'[p].cur].exhaustedUntil > now')
          => \A i \in DOMAIN clients' : clients'[i].exhaustedUntil > now']_vars

InvokedDuringCooldownWitness ==
    \E p \in Procs : handlers[p].pc = "call" /\ handlers[p].selExhausted

AllQuota(h) == h.outcomes # <<>> /\ \A k \in DOMAIN h.outcomes : _isQuotaError(h.outcomes[k])

\* C6: when every client answers with a quota error, call() invokes fn once
\* on each client, never twice on one, and then throws the last error.
AllQuotaTriesEachOnce ==
    \A p \in Procs :
        LET h == handlers[p]
        IN  (h.op = "generateContent" /\ AllQuota(h))
            => /\ Cardinality(Range(h.log)) = Len(h.log)
               /\ IF Len(h.outcomes) < n
                  THEN h.pc = "call" /\ Len(h.log) = Len(h.outcomes) + 1
                  ELSE /\ Range(h.log) = DOMAIN clients
                       /\ h.pc = "errorReply" /\ h.errStage = "generate"
                       /\ h.err = Last(h.outcomes)

AllQuotaTriesEachOnceWitness ==
    \E p \in Procs :
        /\ n = 2 /\ AllQuota(handlers[p]) /\ Len(handlers[p].outcomes) = 2
        /\ handlers[p].outcomes[1] # handlers[p].outcomes[2]
        /\ handlers[p].availAtStart # DOMAIN clients
        /\ handlers[p].pc = "errorReply"

\* C7: whenever call() throws a quota error, every client that was available
\* when the call began has had fn invoked on it in that call, and each quota
\* failure on client i moved the pointer to (i + 1) mod n, other calls being
\* in flight or not.
QuotaThrowTriedAllAvailable ==
    [][\A p \in Procs :
          /\ (/\ handlers'[p].pc = "errorReply"
              /\ handlers'[p].errStage = "generate"
              /\ _isQuotaError(handlers'[p].err))
             => handlers'[p].availAtStart \subseteq Range(handlers'[p].log)
          /\ (Failed(p) /\ _isQuotaError(FailedWith(p)))
             => idx' = (handlers[p].cur + 1) % n]_vars

QuotaThrowTriedAllAvailableWitness ==
    \E p, q \in Procs :
        /\ n = 2 /\ p # q
        /\ handlers[p].pc = "errorReply" /\ _isQuotaError(handlers[p].err)
        /\ handlers[p].availAtStart = DOMAIN clients
        /\ handlers[q].pc = "call"

\* C8 as it was claimed: for every pool size, a quota failure on client i
\* sets its exhaustedUntil to now + FAILOVER_COOLDOWN_MS.
QuotaFailureAlwaysMarks ==
    [][\A p \in Procs :
          (Failed(p) /\ _isQuotaError(FailedWith(p)))
          => clients'[handlers[p].cur].exhaustedUntil = now + FAILOVER_COOLDOWN_MS]_vars

\* C8: in a pool of two or more clients a quota failure on client i sets its
\* exhaustedUntil to now + FAILOVER_COOLDOWN_MS before the retry; in a pool
\* of one client the error is thrown and the pool is left as it was.
QuotaFailureMarksInPoolOfTwo ==
    [][\A p \in Procs :
          (Failed(p) /\ _isQuotaError(FailedWith(p)))
          => IF n >= 2
             THEN clients'[handlers[p].cur].exhaustedUntil = now + FAILOVER_COOLDOWN_MS
             ELSE clients' = clients /\ idx' = idx]_vars

QuotaFailureMarksWitness ==
    \E p \in Procs :
        LET h == handlers[p]
        IN  /\ n = 2 /\ h.outcomes # <<>> /\ _isQuotaError(Last(h.outcomes))
            /\ clients[h.log[Len(h.outcomes)]].exhaustedUntil = now + FAILOVER_COOLDOWN_MS

\* C9: when fn fails with an error that is no quota error, call() throws it
\* at once: no further client is invoked, and the pointer and every
\* exhaustedUntil stay as they were.
OtherErrorThrownAtOnce ==
    [][\A p \in Procs :
          (Failed(p) /\ ~_isQuotaError(FailedWith(p)))
          => /\ clients' = clients /\ idx' = idx
             /\ handlers'[p].nInv = handlers[p].nInv
             /\ handlers'[p].log = handlers[p].log
             /\ handlers'[p].pc = "errorReply"
             /\ handlers'[p].err = FailedWith(p)]_vars

OtherErrorThrownAtOnceWitness ==
    \E p \in Procs :
        /\ n = 2 /\ handlers[p].pc = "errorReply" /\ handlers[p].err = E500
        /\ Range(handlers[p].log) # DOMAIN clients

\* C10: a quota error of the generation request, raised at dispatch or
\* while the stream is consumed, becomes an error reply only if fn has been
\* invoked on every client of the pool for that request.
QuotaErrorReplyOnlyAfterAllTried ==
    \A p \in Procs :
        LET h == handlers[p]
        IN  (h.pc = "errorReply" /\ h.errStage \in {"generate", "stream"}
                /\ _isQuotaError(h.err))
            => Range(h.log) = DOMAIN clients

(***************************************************************************)
(* Claims about the session cache.                                         *)
(***************************************************************************)
GenOps == {"generateContent", "generateContentStream"}

\* the step in which handler p runs ensureSessionCache(sk) up to its return
\* or to its first creation call
EnsureCalled(p) ==
    /\ \/ handlers[p].pc \in {"channelCtx", "recentImages"}
       \/ InCall(p, {"summarize"})
    /\ handlers'[p].pc = "call"
    /\ handlers'[p].op \in GenOps \cup {"cache.create[A]"}

\* ensureSessionCache returned name (0 for null) with no creation call
Returned(p, name) ==
    handlers'[p].op \in GenOps /\ handlers'[p].cacheName = name

Age(K) == now - sessionCache[K].createdAt
StoredFresh(K) == MapHas(sessionCache, K) /\ Age(K) < CACHE_TTL_SEC * 1000
SummaryOf(m, K) == IF MapHas(m, K) THEN m[K] ELSE EmptyText

\* C11: ensureSessionCache(K) returns the stored handle with no creation
\* call whenever a handle is stored for K with age < TTL, and never
\* returns a stored handle whose age is >= TTL.
FreshHandleReused ==
    [][\A p \in Procs :
          EnsureCalled(p) =>
            LET K == handlers[p].sk
            IN  /\ StoredFresh(K) =>
                     Returned(p, sessionCache[K].name) /\ sessionCache' = sessionCache
                /\ (MapHas(sessionCache, K) /\ ~StoredFresh(K)) =>
                     ~Returned(p, sessionCache[K].name)]_vars

FreshHandleReusedWitness ==
    \E p \in Procs :
        LET h == handlers[p]
        IN  /\ h.pc = "call" /\ h.op \in GenOps /\ h.nInv = 1
            /\ h.cacheName # 0
            /\ MapHas(sessionCache, h.sk)
            /\ h.cacheName = sessionCache[h.sk].name
            /\ sessionCache[h.sk].createdAt < now

\* C12 as it was claimed: a request at T + S - 1 reuses the handle, and a
\* request at T + S + 1 issues a creation call whatever summary is stored.
ExpiredHandleAlwaysRecreated ==
    [][\A p \in Procs :
          (EnsureCalled(p) /\ MapHas(sessionCache, handlers[p].sk) /\ CACHE_TTL_SEC > 0) =>
            LET K == handlers[p].sk
            IN  /\ Age(K) = (CACHE_TTL_SEC - 1) * 1000 =>
                     Returned(p, sessionCache[K].name)
                /\ Age(K) = (CACHE_TTL_SEC + 1) * 1000 =>
                     handlers'[p].op = "cache.create[A]"]_vars

\* C12: for a handle of K created at T with TTL S > 0, a request at
\* T + S - 1 returns it with no creation call; a request at T + S + 1
\* issues a creation call when the summary stored for K then has an
\* estimate of at least MIN_CACHE_TOKENS, and else returns null with no call.
ExpiredHandleRecreatedAboveFloor ==
    [][\A p \in Procs :
          (EnsureCalled(p) /\ MapHas(sessionCache, handlers[p].sk) /\ CACHE_TTL_SEC > 0) =>
            LET K == handlers[p].sk
            IN  /\ Age(K) = (CACHE_TTL_SEC - 1) * 1000 =>
                     Returned(p, sessionCache[K].name)
                /\ Age(K) = (CACHE_TTL_SEC + 1) * 1000 =>
                     IF roughTokens(SummaryOf(sessionSummary', K)) >= MIN_CACHE_TOKENS
                     THEN handlers'[p].op = "cache.create[A]"
                     ELSE Returned(p, 0)]_vars

ExpiredHandleRecreatedWitness ==
    \E p \in Procs :
        LET h == handlers[p]
        IN  /\ h.pc = "call" /\ h.op = "cache.create[A]"
            /\ MapHas(sessionCache, h.sk)
            /\ now - sessionCache[h.sk].createdAt = (CACHE_TTL_SEC + 1) * 1000

CreationOnlyAboveFloor ==
    [][\A p \in Procs :
          (EnsureCalled(p) /\ handlers'[p].op = "cache.create[A]") =>
            roughTokens(SummaryOf(sessionSummary', handlers[p].sk)) > MIN_CACHE_TOKENS]_vars

(***************************************************************************)
(* Claims about summarization.                                             *)
(***************************************************************************)
WindowOf(m, k) == IF MapHas(m, k) THEN m[k] ELSE <<>>

\* the step in which handler p runs summarizeIfNeeded(sk, channelId) up to
\* its return or to its await
SummarizeCalled(p) ==
    /\ handlers[p].pc \in {"channelCtx", "recentImages"}
    /\ handlers'[p].pc = "call"

\* roughTokens(combined) as summarizeIfNeeded computes it for handler p
EstimateOf(p) ==
    roughTokens(Text(<<>>, CombinedLen(WindowOf(userMemory, handlers[p].sk),
                                       WindowOf(sharedMemory, handlers[p].channelId))))

\* C15: summarizeIfNeeded issues the summarization call if and only if the
\* private-turn count is strictly greater than MEM_TURNS_PRIVATE or the
\* estimate is strictly greater than 6000 tokens; otherwise it returns with
\* no upstream call of its own and leaves the stored state as it was.
SummarizeOnlyAboveThreshold ==
    [][\A p \in Procs :
          SummarizeCalled(p) =>
            LET over == \/ Len(WindowOf(userMemory, handlers[p].sk)) > MAX_TURNS_PRIVATE
                        \/ EstimateOf(p) > SUMMARY_TOKENS
            IN  /\ handlers'[p].op = "summarize" <=> over
                /\ ~over => /\ userMemory' = userMemory
                            /\ sharedMemory' = sharedMemory
                            /\ sessionSummary' = sessionSummary]_vars

\* the estimate is exactly 6000 tokens and the summarization call is issued
SummarizeAtThreshold ==
    \E p \in Procs :
        /\ handlers[p].pc = "call" /\ handlers[p].op = "summarize"
        /\ roughTokens(Text(<<>>, CombinedLen(handlers[p].priv,
                                WindowOf(sharedMemory, handlers[p].channelId)))) = SUMMARY_TOKENS

\* C16: when the summarization call succeeds for key K, the summary stored
\* for K afterwards is the returned text cut to 4000 characters, whatever
\* summary was stored before, and K's private window is its last 4 turns.
SummaryReplacedOnSuccess ==
    [][\A p \in Procs, t \in {Undefined, SMALL, SUMMARY} :
          SummarizeResolved(p, t) =>
            LET K    == handlers[p].sk
                text == IF t = Undefined THEN EmptyText ELSE t
            IN  /\ SummaryOf(sessionSummary', K) = SliceHead(text, 4000)
                /\ WindowOf(userMemory', K) = ArraySlice(WindowOf(userMemory, K), 0 - 4)]_vars

\* C17: when the summarization call fails, nothing is thrown to the handler,
\* the private windows, the shared windows and the summaries are what they
\* were, and the handler goes on to the cache step or the generation call.
SummarizeFailureIsNotFatal ==
    [][\A p \in Procs :
          (Failed(p) /\ handlers[p].op = "summarize") =>
            /\ userMemory' = userMemory
            /\ sharedMemory' = sharedMemory
            /\ sessionSummary' = sessionSummary
            /\ handlers'[p].pc = "call"
            /\ handlers'[p].op \in {"summarize", "cache.create[A]"} \cup GenOps
            /\ handlers'[p].err = NoError
            /\ ~handlers'[p].rejected]_vars

SummarizeFailureIsNotFatalWitness ==
    \E p \in Procs :
        LET h == handlers[p]
        IN  /\ h.pc = "call" /\ h.op \in GenOps
            /\ h.nInv = 2 /\ h.nRej = 1 /\ _isQuotaError(h.lastRej)
            /\ MapHas(userMemory, h.sk) /\ userMemory[h.sk] # <<>>

(***************************************************************************)
(* Claims about chunking and the messages sent.                            *)
(***************************************************************************)
CeilDiv(a, b) == (a + b - 1) \div b

\* chunks[1] + chunks[2] + ...
Joined(chunks) ==
    LET J[k \in 0..Len(chunks)] == IF k = 0 THEN EmptyText ELSE Concat(J[k - 1], chunks[k])
    IN  J[Len(chunks)]

\* C18 as it was claimed: for every length L >= 0 and limit C >= 1 the
\* result has exactly ceil(L/C) chunks, each of at most C characters, whose
\* concatenation in order is the text.
ChunksAreCeil ==
    chunkOut # <<>> =>
        /\ Len(chunkOut) = CeilDiv(chunkArg.text.len, chunkArg.limit)
        /\ \A k \in DOMAIN chunkOut : chunkOut[k].len <= chunkArg.limit
        /\ Joined(chunkOut) = chunkArg.text

\* C18: for every length L >= 1 and limit C >= 1 the result has exactly
\* ceil(L/C) chunks, and for L = 0 it is one empty chunk; each chunk has at
\* most C characters and the concatenation in order is the text.
ChunksAreCeilOrOneEmpty ==
    chunkOut # <<>> =>
        /\ Len(chunkOut) = IF chunkArg.text.len = 0 THEN 1
                           ELSE CeilDiv(chunkArg.text.len, chunkArg.limit)
        /\ \A k \in DOMAIN chunkOut : chunkOut[k].len <= chunkArg.limit
        /\ Joined(chunkOut) = chunkArg.text

ChunksAreCeilWitness ==
    /\ Len(chunkOut) >= 3
    /\ chunkOut[Len(chunkOut)].len < chunkArg.limit
    /\ chunkOut[1].len = chunkArg.limit

\* the messages handler p is about to send for its answer
AnswerMessages(p) ==
    IF handlers[p].pc \in {"placeholder", "streamEdit", "emit"}
    THEN Range(handlers[p].outbox) ELSE {}

\* C19: every message sent for an answer (the edits while streaming, the
\* final primary reply and each follow-up) has at most 2000 characters, on
\* both paths, streamed or not.
AnswerMessagesWithinLimit ==
    \A p \in Procs : \A m \in AnswerMessages(p) : m.content.len <= 2000

\* C20: no failure of an awaited gateway or upstream call inside a handler
\* leaves the handler's promise rejected.
NoHandlerRejected == \A p \in Procs : ~handlers[p].rejected

(***************************************************************************)
(* SpecAux: both handlers, one invocation at a time, for every setting of  *)
(* IMAGE_FETCH and IMAGE_CTX_FROM_CHANNEL; the answers are not streamed;   *)
(* every gateway call (the channel fetches included) may fail.             *)
(***************************************************************************)
AuxEnvs ==
    {With(With(With(DefaultEnv, "GEMINI_STREAM", FALSE), "IMAGE_FETCH", a),
          "IMAGE_CTX_FROM_CHANNEL", b) : a \in BOOLEAN, b \in BOOLEAN}

InitAux == InitWith(AuxEnvs, {<<TRUE, FALSE>>})

NextAux ==
    \/ \E p \in Procs, c \in Channels, t \in Prompts :
          Quiet /\ started < MaxCalls /\ InteractionCreate(p, c, "u1", "gemini", t)
    \/ \E p \in Procs, c \in Channels, t \in Prompts :
          Quiet /\ started < MaxCalls /\ MessageCreate(p, c, "u1", t)
    \/ \E p \in Procs : GatewayResolved(p)
    \/ \E p \in Procs : GatewayRejected(p)
    \/ \E p \in Procs, t \in {SHORT, LONG} : GenerateResolved(p, t)
    \/ \E p \in Procs : CallRejected(p, E500)
    \/ Tick

SpecAux == InitAux /\ [][NextAux]_vars

(***************************************************************************)
(* Claims about the handlers' error handling.                              *)
(***************************************************************************)
\* the awaits of the auxiliary context: channel.messages.fetch inside
\* buildChannelContext and inside collectRecentImagesFromChannel
AuxAwaits == {"channelCtx", "recentImages"}

\* the step in which an auxiliary fetch of handler p fails
AuxFetchFailed(p) ==
    /\ handlers[p].pc \in AuxAwaits
    /\ GatewayRejected(p)

\* C21: a failure while fetching auxiliary context is treated as empty
\* context: after the step in which the fetch fails the handler goes on to
\* the next auxiliary fetch or to the generation call, never to its catch,
\* for every setting of IMAGE_FETCH and IMAGE_CTX_FROM_CHANNEL.
AuxFailureIsEmptyContext ==
    [][\A p \in Procs :
          AuxFetchFailed(p) =>
             /\ handlers'[p].pc \in AuxAwaits \cup {"call"}
             /\ handlers'[p].err = NoError]_vars

(***************************************************************************)
(* SpecError: both handlers, one invocation at a time, with a pool of two  *)
(* clients, the answers streamed or not; an upstream call may fail with a  *)
(* quota error or with another error, and so may the stream while it is    *)
(* consumed.                                                               *)
(***************************************************************************)
ErrorEnvs == {DefaultEnv, With(DefaultEnv, "GEMINI_STREAM", FALSE)}

InitError == InitWith(ErrorEnvs, {<<TRUE, TRUE>>})

NextError ==
    \/ \E p \in Procs, c \in Channels, t \in Prompts :
          Quiet /\ started < MaxCalls /\ InteractionCreate(p, c, "u1", "gemini", t)
    \/ \E p \in Procs, c \in Channels, t \in Prompts :
          Quiet /\ started < MaxCalls /\ MessageCreate(p, c, "u1", t)
    \/ \E p \in Procs : GatewayResolved(p)
    \/ \E p \in Procs : StreamOpened(p)
    \/ \E p \in Procs : StreamChunk(p, SHORT)
    \/ \E p \in Procs : StreamEnd(p)
    \/ \E p \in Procs, e \in {E429, E500} : StreamError(p, e)
    \/ \E p \in Procs : GenerateResolved(p, SHORT)
    \/ \E p \in Procs, e \in {E429, E500} : CallRejected(p, e)
    \/ Tick

SpecError == InitError /\ [][NextError]_vars

\* the step in which the generation step of handler p fails: the upstream
\* call rejects, or the stream throws while it is consumed
GenerationFailed(p) ==
    \/ Failed(p) /\ handlers[p].op \in GenOps
    \/ handlers[p].pc = "stream" /\ handlers'[p].errStage = "stream"

GenerationError(p) ==
    IF handlers[p].pc = "stream" THEN handlers'[p].err ELSE FailedWith(p)

\* handler p is in its catch after a failed generation step
AfterGenerationFailure(p) ==
    /\ handlers[p].pc = "errorReply"
    /\ handlers[p].errStage \in {"generate", "stream"}

\* C22: when the generation step fails with a non-quota error, the handler
\* invokes no further upstream operation, goes to its catch with exactly one
\* error reply to send, and records no turn: both windows are as they were,
\* the private one ending with the user turn of this trigger; from there it
\* only sends that reply and returns.
NonQuotaFailureOneErrorReply ==
    [][\A p \in Procs :
          /\ (GenerationFailed(p) /\ ~_isQuotaError(GenerationError(p)))
             => LET h == handlers'[p]
                IN  /\ h.pc = "errorReply"
                    /\ h.nInv = handlers[p].nInv
                    /\ h.outbox = <<Msg(IF h.kind = "gemini" THEN "editReply" ELSE "reply",
                                        ErrorText(GenerationError(p)))>>
                    /\ userMemory' = userMemory
                    /\ sharedMemory' = sharedMemory
                    /\ Last(userMemory'[h.sk]) = Turn("user", h.prompt)
                    /\ Last(sharedMemory'[h.channelId]) = SharedTurn(h.nick, h.prompt)
          /\ AfterGenerationFailure(p)
             => /\ handlers'[p].pc \in {"errorReply", "done"}
                /\ handlers'[p].pc = "errorReply" => handlers'[p] = handlers[p]
                /\ userMemory' = userMemory
                /\ sharedMemory' = sharedMemory]_vars

\* in a pool of two, a handler in its catch after one invocation that failed
\* with a non-quota error, the other client being available
NonQuotaFailureWitness ==
    \E p \in Procs :
        /\ AfterGenerationFailure(p)
        /\ handlers[p].err = E500
        /\ handlers[p].nInv = 1
        /\ n = 2
        /\ \E i \in DOMAIN clients : clients[i].exhaustedUntil <= now /\ i # handlers[p].cur
        /\ Len(handlers[p].outbox) = 1
        /\ Last(userMemory[handlers[p].sk]).role = "user"

(***************************************************************************)
(* SpecContents: both handlers, one invocation at a time, for two users;   *)
(* the channel fetches return a snapshot and images, or nothing.           *)
(***************************************************************************)
SNAPSHOT == Text(<<"snapshot">>, 30)

ContentsEnvs ==
    {With(With(DefaultEnv, "GEMINI_STREAM", FALSE), "IMAGE_CTX_FROM_CHANNEL", b) :
        b \in BOOLEAN}

InitContents == InitWith(ContentsEnvs, {<<TRUE, FALSE>>})

NextContents ==
    \/ \E p \in Procs, c \in Channels, u \in Users, t \in Prompts :
          Quiet /\ InteractionCreate(p, c, u, "gemini", t)
    \/ \E p \in Procs, c \in Channels, u \in Users, t \in Prompts :
          Quiet /\ MessageCreate(p, c, u, t)
    \/ \E p \in Procs : GatewayResolved(p)
    \/ \E p \in Procs : ChannelContextFetched(p, SNAPSHOT)
    \/ \E p \in Procs : RecentImagesFetched(p, <<ImagePart(1)>>)
    \/ \E p \in Procs : GenerateResolved(p, SHORT)

SpecContents == InitContents /\ [][NextContents]_vars

(***************************************************************************)
(* Claims about the contents of the generation call.                       *)
(***************************************************************************)
\* handler p serves the first trigger, with prompt "hello", and got no
\* channel snapshot and no image
FirstHello(p) ==
    /\ started = 1
    /\ handlers[p].prompt = HELLO
    /\ handlers[p].channelCtx = EmptyText
    /\ handlers[p].extraImageParts = <<>>

\* handler p is inside its generation call
Generating(p) == InCall(p, GenOps)

\* the step in which handler p builds the contents and makes the generation
\* call, and the contents it passes
EntersGeneration(p) == ~Generating(p) /\ Generating(p)'

GenerationContents(p) ==
    toWindowedContents(Cur', handlers'[p].sk, handlers'[p].channelId, handlers'[p].nick,
                       handlers'[p].channelCtx, handlers'[p].extraImageParts)

\* the display name resolved for the author of the trigger p serves
Speaker(p) ==
    IF handlers[p].kind = "gemini" THEN userNickFromInteraction(handlers[p].sk[2])
    ELSE userNickFromMessage(handlers[p].sk[2])

\* one private turn and one shared turn, labelled with the speaker
OneTurnRecorded(p) ==
    /\ userMemory[handlers[p].sk] = <<Turn("user", HELLO)>>
    /\ sharedMemory[handlers[p].channelId] = <<SharedTurn(Speaker(p), HELLO)>>

\* C23 (as stated): for the first trigger, with prompt "hello", no snapshot
\* and no image, one private turn and one shared turn labelled with the
\* speaker are recorded before generation, and the contents of the
\* generation call are the speaker header and that user turn, nothing else.
FirstContentsHeaderAndTurnOnly ==
    [][\A p \in Procs :
          (FirstHello(p)' /\ EntersGeneration(p))
          => /\ OneTurnRecorded(p)
             /\ GenerationContents(p) =
                   <<Content("user", <<TextPart(HeaderText(Speaker(p)))>>),
                     Content("user", <<TextPart(HELLO)>>)>>]_vars

\* C23 (amended): ... and the contents of the generation call are the
\* speaker header, that user turn, and the digest of the shared window,
\* which holds that one shared turn.
FirstContentsHeaderTurnAndDigest ==
    [][\A p \in Procs :
          (FirstHello(p)' /\ EntersGeneration(p))
          => /\ OneTurnRecorded(p)
             /\ GenerationContents(p) =
                   <<Content("user", <<TextPart(HeaderText(Speaker(p)))>>),
                     Content("user", <<TextPart(HELLO)>>),
                     Content("user",
                             <<TextPart(SharedText(<<SharedTurn(Speaker(p), HELLO)>>,
                                                   Speaker(p)))>>)>>]_vars

\* the first trigger, a message of the user with no display name, is inside
\* its generation call, one turn in each window
FirstContentsWitness ==
    \E p \in Procs :
        /\ FirstHello(p)
        /\ Generating(p)
        /\ handlers[p].kind = "message"
        /\ handlers[p].nick = Text(<<"ola">>, 3)
        /\ OneTurnRecorded(p)

(***************************************************************************)
(* Claims about the streaming path.                                        *)
(***************************************************************************)
IsModelTurn(t) == t.role = "model"
IsRickyTurn(t) == t.speaker = RICKY

\* the assistant turns of the windows of handler p's key and channel
AssistantTurns(um, sm, p) ==
    <<IF MapHas(um, handlers[p].sk)
         THEN SelectSeq(um[handlers[p].sk], IsModelTurn) ELSE <<>>,
      IF MapHas(sm, handlers[p].channelId)
         THEN SelectSeq(sm[handlers[p].channelId], IsRickyTurn) ELSE <<>> >>

\* the step in which the stream of handler p ends
StreamEnded(p) == handlers[p].pc = "stream" /\ handlers'[p].pc = "emit"

\* what is recorded for a stream that accumulated accum
FinalText(accum) == IF accum.len = 0 THEN PLACEHOLDER_EMPTY ELSE accum

\* handler p has recorded its user turn and has not returned
Serving(p) ==
    handlers[p].pc \in {"channelCtx", "recentImages", "call", "stream",
                        "placeholder", "streamEdit", "emit", "errorReply"}

\* C24: on the streaming path the user turn is in both windows when the
\* handler invokes an upstream operation; the step in which the stream ends
\* appends one assistant turn to each window, holding the whole accumulated
\* text, or the placeholder when that is empty; no other step of the trigger
\* (a fragment, an edit, a failure of the stream, the sending of the answer)
\* changes the assistant turns of either window.
StreamAnswerStoredOnceAtEnd ==
    [][useStream =>
         \A p \in Procs :
            LET h == handlers[p]
            IN  /\ Invoked(p)
                   => /\ MapHas(userMemory, h.sk)
                      /\ Turn("user", handlers'[p].prompt) \in Range(userMemory[handlers'[p].sk])
                      /\ SharedTurn(handlers'[p].nick, handlers'[p].prompt)
                            \in Range(sharedMemory[handlers'[p].channelId])
                /\ StreamEnded(p)
                   => /\ userMemory'[h.sk] =
                            Append(userMemory[h.sk], Turn("model", FinalText(h.accum)))
                      /\ sharedMemory'[h.channelId] =
                            Append(sharedMemory[h.channelId],
                                   SharedTurn(RICKY, FinalText(h.accum)))
                /\ (Serving(p) /\ ~StreamEnded(p))
                   => AssistantTurns(userMemory', sharedMemory', p)
                         = AssistantTurns(userMemory, sharedMemory, p)]_vars

\* a stream of two fragments has ended and the answer is being sent; the
\* last turn of each window is the whole text
StreamAnswerStoredWitness ==
    \E p \in Procs :
        /\ useStream
        /\ handlers[p].pc = "emit"
        /\ handlers[p].nChunks = 2
        /\ handlers[p].accum = Concat(SHORT, SHORT)
        /\ Last(userMemory[handlers[p].sk]) = Turn("model", handlers[p].accum)
        /\ Last(sharedMemory[handlers[p].channelId]) = SharedTurn(RICKY, handlers[p].accum)

(***************************************************************************)
(* Claims about the client records of the pool.                            *)
(***************************************************************************)
\* the step in which fn invoked by some handler on client i rejects with a
\* recognized quota error
QuotaErrorOn(i) ==
    \E p \in Procs :
        /\ Failed(p)
        /\ _isQuotaError(FailedWith(p))
        /\ handlers[p].cur = i

\* C25: the exhaustedUntil of a client record changes only in a step in
\* which an operation invoked on that client rejects with a recognized
\* quota error, and then it becomes now + cooldown; in every other step it
\* is kept, so a record that is available stays available, and a record
\* marked at time t is available (exhaustedUntil <= now) at every time
\* >= t + cooldown reached with no further marking.
RecordExhaustedOnlyByOwnQuotaError ==
    [][\A i \in DOMAIN clients :
          /\ clients'[i].exhaustedUntil # clients[i].exhaustedUntil
             => /\ QuotaErrorOn(i)
                /\ clients'[i].exhaustedUntil = now + FAILOVER_COOLDOWN_MS
          /\ (clients[i].exhaustedUntil <= now /\ ~QuotaErrorOn(i))
             => clients'[i].exhaustedUntil <= now'
          /\ clients'[i].exhaustedUntil <= now' + FAILOVER_COOLDOWN_MS]_vars

\* a record marked at time 0 with a cooldown of two seconds is available
\* again at time 2000, the other record never having been marked
RecordAvailableAgainWitness ==
    \E i \in DOMAIN clients :
        /\ FAILOVER_COOLDOWN_MS = 2000
        /\ clients[i].exhaustedUntil = 2000
        /\ now = 2000
        /\ _findAvailableIndex([Cur EXCEPT !.idx = i]) = i

\* client i is within its cooldown after the step
ExhaustedAfter(i) == clients'[i].exhaustedUntil > now'

\* r is the first index, in cyclic order from the pointer, of a client that
\* is not within its cooldown; the pointer itself when there is none
FirstAvailableFromPointer(r) ==
    IF \A i \in DOMAIN clients' : ExhaustedAfter(i)
    THEN r = idx'
    ELSE /\ ~ExhaustedAfter(r)
         /\ \A k \in 0..(n - 1) :
               (idx' + k) % n = r => \A j \in 0..(k - 1) : ExhaustedAfter((idx' + j) % n)

\* C26: whenever call() selects a client, the client it invokes fn on is the
\* first one in cyclic order from the pointer that is not exhausted, and the
\* pointer itself when every client is exhausted; a call() that begins always
\* invokes fn on a client.
SelectsFirstAvailableFromPointer ==
    [][\A p \in Procs :
          /\ Invoked(p) => FirstAvailableFromPointer(handlers'[p].cur)
          /\ (handlers[p].pc # "call" /\ handlers'[p].pc = "call") => Invoked(p)]_vars

\* a call() that began while both clients were within their cooldown has
\* invoked fn on the client at the pointer
SelectsPointerWhenAllExhaustedWitness ==
    \E p \in Procs :
        /\ handlers[p].pc = "call"
        /\ handlers[p].attempt = 0
        /\ handlers[p].cur = idx
        /\ n = 2
        /\ \A i \in DOMAIN clients : clients[i].exhaustedUntil > now
        /\ handlers[p].availAtStart = {}

(***************************************************************************)
(* Claims about handlers in flight for one key.                            *)
(***************************************************************************)
\* no window, no summary and no cache handle is stored for K
Absent(um, ss, sc, K) ==
    /\ K \notin DOMAIN um
    /\ K \notin DOMAIN ss
    /\ K \notin DOMAIN sc

\* handler q recorded its user turn, is suspended in an upstream call, and
\* the window of its key has been deleted since: a gemini-reset for the key
\* was handled while q was in flight
ResetWhileSuspended(q) ==
    /\ handlers[q].kind = "gemini"
    /\ handlers[q].pc = "call"
    /\ Absent(userMemory, sessionSummary, sessionCache, handlers[q].sk)

\* C27: when a gemini-reset for key K has been handled while handler q for K
\* is suspended in a summarization, cache-creation or generation call, the
\* steps q takes from there to its end store no window, no summary and no
\* cache handle for K.
InFlightHandlerKeepsReset ==
    [][\A q \in Procs :
          (ResetWhileSuspended(q) /\ handlers'[q] # handlers[q])
          => Absent(userMemory', sessionSummary', sessionCache', handlers[q].sk)]_vars

(***************************************************************************)
(* SpecTrigger: messages of every kind arrive one after the other, with    *)
(* REACT_TO_NONUSER_MESSAGES off and on; the answers are not streamed.     *)
(***************************************************************************)
MaxMessages == 1

Contents ==
    {<<"R", "i", "c", "k", "y", " ", "h", "i">>,
     <<" ", "G", "E", "M", "I", "N", "I", ":", " ", "y", "o", " ">>,
     <<"<", "@", BOT_ID, ">", " ", "h", "i">>,
     <<"<", "@", "!", BOT_ID, ">", " ", "h", "i">>,
     <<"h", "i", " ", "r", "i", "c", "k", "y">>,
     <<"<", "@", "43", ">", " ", "h", "i">>,
     <<"r", "i", "c", "k">>,
     <<" ", " ">>}

\* who wrote the message: a user, a bot, a webhook, an application
Authors == {<<FALSE, FALSE, FALSE>>, <<TRUE, FALSE, FALSE>>,
            <<TRUE, TRUE, FALSE>>, <<FALSE, FALSE, TRUE>>}

Messages ==
    {Message(type, a[1], a[2], a[3], isDM, content, k) :
        type \in {"Default", "Reply", "UserJoin"}, a \in Authors,
        isDM \in BOOLEAN, content \in Contents, k \in {0}}
    \cup {Message(type, a[1], a[2], a[3], isDM, <<>>, 1) :
        type \in {"Default", "Reply", "UserJoin"}, a \in Authors, isDM \in BOOLEAN}

TriggerEnvs ==
    {With(DefaultEnv, "GEMINI_STREAM", FALSE),
     With(With(DefaultEnv, "GEMINI_STREAM", FALSE), "REACT_TO_NONUSER_MESSAGES", TRUE)}

InitTrigger == InitWith(TriggerEnvs, {<<TRUE, FALSE>>})

NextTrigger ==
    \/ \E p \in Procs, c \in Channels, m \in Messages :
          Quiet /\ started < MaxMessages /\ MessageReceived(p, c, "u1", m)
    \/ \E p \in Procs : GatewayResolved(p)
    \/ \E p \in Procs : AttachmentFetched(p)
    \/ \E p \in Procs : AttachmentFailed(p)
    \/ \E p \in Procs : GenerateResolved(p, SHORT)

SpecTrigger == InitTrigger /\ [][NextTrigger]_vars

(***************************************************************************)
(* Claims about the trigger guard.                                         *)
(***************************************************************************)
\* the trimmed content begins, whatever the case of its letters, with word
BeginsWith(content, word) ==
    LET raw == Trim(content)
    IN  /\ Len(raw) >= Len(word)
        /\ \A k \in 1..Len(word) : ToLowerCase(raw[k]) = word[k]

BeginsWithPrefixOrMention(content) ==
    \/ \E k \in 1..Len(PREFIXES) : BeginsWith(content, PREFIXES[k])
    \/ BeginsWith(content, <<"<", "@", BOT_ID, ">">>)
    \/ BeginsWith(content, <<"<", "@", "!", BOT_ID, ">">>)

\* C28: a handler started by a message (it records turns and calls the
\* upstream API only after that) was started by a message that is not of a
\* system type, whose author is no bot, webhook or application unless
\* REACT_TO_NONUSER_MESSAGES is on, and whose trimmed content, outside a
\* direct-message channel, begins with a prefix or a mention of the bot.
TriggerOnlyByPrefixOrMention ==
    \A p \in Procs :
        (InFlight(p) /\ handlers[p].kind = "message")
        => LET m == handlers[p].msg
           IN  /\ m.type \in {"Default", "Reply"}
               /\ ~REACT_TO_NONUSER => ~(m.bot \/ m.webhookId \/ m.applicationId)
               /\ ~m.isDM => BeginsWithPrefixOrMention(m.content)

\* a reply written by a user in a guild channel, " GEMINI: yo ", has started
\* a trigger: its turn is recorded and the upstream call is made
TriggerByPrefixWitness ==
    \E p \in Procs :
        /\ handlers[p].kind = "message"
        /\ handlers[p].pc = "call"
        /\ handlers[p].msg.type = "Reply"
        /\ ~handlers[p].msg.isDM
        /\ handlers[p].msg.content[2] = "G"
        /\ handlers[p].prompt = Text(<<"y", "o">>, 2)
        /\ Last(userMemory[handlers[p].sk]) = Turn("user", handlers[p].prompt)

(***************************************************************************)
(* SpecRace: slash commands of one user in one channel, two of them in     *)
(* flight at a time, with windows of two turns; an answer may be long      *)
(* enough to bring the estimate over the summarization threshold.          *)
(***************************************************************************)
RaceEnvs ==
    {With(With(With(With(DefaultEnv, "GEMINI_STREAM", FALSE),
                    "GEMINI_MIN_CACHE_TOKENS", 10),
               "MEM_TURNS_PRIVATE", 2), "MEM_TURNS_SHARED", 2)}

InitRace == InitWith(RaceEnvs, {<<TRUE, FALSE>>})

NextRace ==
    \/ \E p \in Procs, c \in Channels, t \in Prompts :
          InteractionCreate(p, c, "u1", "gemini", t)
    \/ \E p \in Procs : GatewayResolved(p)
    \/ \E p \in Procs, t \in {Undefined, SUMMARY} : SummarizeResolved(p, t)
    \/ \E p \in Procs : CacheCreated(p)
    \/ \E p \in Procs, t \in {SHORT, LONG} : GenerateResolved(p, t)

SpecRace == InitRace /\ [][NextRace]_vars

\* the step in which the summarization call of a handler for K resolves and
\* the handler writes the truncated window back
WrittenBack(K) ==
    \E p \in Procs, t \in {Undefined, SUMMARY} :
        SummarizeResolved(p, t) /\ handlers[p].sk = K

\* C29: in every step the private window stored for K is kept, or a turn is
\* appended to it and the oldest turns beyond MEM_TURNS_PRIVATE are dropped,
\* or K is reset, or a summarization for K is written back and the window
\* becomes its own last 4 turns as it stands in that step: a turn recorded
\* while the summarization call was in flight is not dropped by the write-back.
TurnsStayUntilRemoved ==
    [][\A K \in DOMAIN userMemory :
          \/ K \notin DOMAIN userMemory' /\ \E p \in Procs : ResetHandled(p)
          \/ /\ K \in DOMAIN userMemory'
             /\ \/ userMemory'[K] = userMemory[K]
                \/ /\ userMemory'[K] # <<>>
                   /\ userMemory'[K] =
                         ArraySlice(Append(userMemory[K], Last(userMemory'[K])),
                                    0 - MAX_TURNS_PRIVATE)
                \/ /\ WrittenBack(K)
                   /\ userMemory'[K] = ArraySlice(userMemory[K], 0 - 4)]_vars

\* C30: in every step in which summarizeIfNeeded stores the last 4 turns of
\* its array as K's private window, a summary is stored for K and it is the
\* text the summarization call returned (cut to 4000 characters), the empty
\* text included: the window is not truncated while the previous summary, or
\* none, is kept.
TruncationReplacesSummary ==
    [][\A p \in Procs, t \in {Undefined, SMALL, SUMMARY} :
          LET K == handlers[p].sk
          IN  (/\ SummarizeResolved(p, t)
               /\ userMemory'[K] = ArraySlice(handlers[p].priv, 0 - 4))
              => /\ MapHas(sessionSummary', K)
                 /\ sessionSummary'[K] =
                       SliceHead(IF t = Undefined THEN EmptyText ELSE t, 4000)]_vars

(***************************************************************************)
(* Claims about the summary a cache handle was created from.               *)
(***************************************************************************)
\* the text of the cache object that handle name stands for
CreatedFrom(name) == cacheSeq[name]

\* ensureSessionCache(sk) of handler p returns, with or without a creation
\* call, in this step
EnsureReturns(p) ==
    /\ \/ EnsureCalled(p)
       \/ InCall(p, {"cache.create[A]", "cache.create[B]"})
    /\ handlers'[p].pc = "call"
    /\ handlers'[p].op \in GenOps

\* C31 as it was claimed: whenever ensureSessionCache(K) returns a handle,
\* the handle was created from the summary stored for K at that moment.
ReturnedHandleOfCurrentSummary ==
    [][\A p \in Procs :
          (EnsureReturns(p) /\ handlers'[p].cacheName # 0) =>
            cacheSeq'[handlers'[p].cacheName] =
              SummaryOf(sessionSummary', handlers[p].sk)]_vars

\* C31: a handle that ensureSessionCache(K) creates is created from the
\* summary stored for K at that time; a stored handle younger than the TTL
\* is returned as it is, also after K's summary has been overwritten by a
\* later summarization; a handle is returned only if it is the stored one
\* and younger than the TTL, or was created in this very call.
ReturnedHandleFreshOrJustCreated ==
    [][\A p \in Procs :
          LET K == handlers[p].sk
              g == handlers'[p]
          IN  /\ (InCall(p, {"cache.create[A]", "cache.create[B]"}) /\ EnsureReturns(p)
                    /\ g.cacheName # 0) =>
                   /\ cacheSeq'[g.cacheName] = SummaryOf(sessionSummary', K)
                   /\ g.cacheName \notin DOMAIN cacheSeq
              /\ EnsureCalled(p) =>
                   /\ StoredFresh(K) => Returned(p, sessionCache[K].name)
                   /\ (EnsureReturns(p) /\ g.cacheName # 0) =>
                        StoredFresh(K) /\ g.cacheName = sessionCache[K].name]_vars

\* a handle created from an earlier summary has been returned
StaleHandleReturnedWitness ==
    \E p \in Procs :
        LET h == handlers[p]
        IN  /\ h.pc = "call" /\ h.op \in GenOps
            /\ h.cacheName # 0
            /\ CreatedFrom(h.cacheName) # SummaryOf(sessionSummary, h.sk)
            /\ MapHas(sessionSummary, h.sk)

(***************************************************************************)
(* SpecDefault: the slash command under the default configuration (floor   *)
(* of 1100 tokens, TTL of 3600 s, windows of 12 and 8 turns), one          *)
(* invocation at a time, with the workload that favours caching most:      *)
(* every answer is long, so that summarization fires from the second       *)
(* trigger of a channel on, and every summarization returns a text of at   *)
(* least 4000 characters.  The answers are not streamed, which touches     *)
(* neither the summary nor the cache; no handle is ever stored, so no age  *)
(* is ever computed and the clock is left alone.  Every enabled            *)
(* continuation eventually runs.                                           *)
(***************************************************************************)
\* summaries as long as, and longer than, the 4000 characters that are kept
CAPPED  == Text(<<"capped summary">>, 4000)
VERBOSE == Text(<<"verbose summary">>, 4400)

DefaultEnvs == {With(DefaultEnv, "GEMINI_STREAM", FALSE)}

InitDefault == InitWith(DefaultEnvs, {<<TRUE, FALSE>>})

NextDefault ==
    \/ \E p \in Procs, c \in Channels, u \in Users, t \in Prompts :
          Quiet /\ InteractionCreate(p, c, u, "gemini", t)
    \/ \E p \in Procs : GatewayResolved(p)
    \/ \E p \in Procs, t \in {CAPPED, VERBOSE} : SummarizeResolved(p, t)
    \/ \E p \in Procs : GenerateResolved(p, LONG)

SpecDefault == InitDefault /\ [][NextDefault]_vars /\ WF_vars(NextDefault)

\* handler p has issued a cache-creation call
CreationIssued(p) == InCall(p, {"cache.create[A]", "cache.create[B]"})

\* a summarization has stored a summary of the full 4000 characters
FullSummaryStored ==
    \E K \in DOMAIN sessionSummary : sessionSummary[K].len = 4000

\* C32 as it was claimed: under the default configuration a state is reached
\* in which ensureSessionCache has issued a cache-creation call.  Every
\* behaviour of SpecDefault stores summaries of the full 4000 characters, so
\* here the state is reachable exactly if every behaviour reaches it.
CreationCallReachedUnderDefaults ==
    <>(\E p \in Procs : CreationIssued(p))

\* what holds instead: no stored summary is longer than 4000 characters, its
\* estimate stays below the floor of 1100 tokens, no creation call is ever
\* issued and no handle is ever stored
NoCreationCallUnderDefaults ==
    /\ \A K \in DOMAIN sessionSummary :
          /\ sessionSummary[K].len <= 4000
          /\ roughTokens(sessionSummary[K]) < MIN_CACHE_TOKENS
    /\ \A p \in Procs : ~CreationIssued(p)
    /\ sessionCache = EmptyMap
    /\ cacheSeq = <<>>

\* every behaviour does store a summary of the full 4000 characters
FullSummaryEventuallyStored == <>FullSummaryStored

(***************************************************************************)
(* Claims about the window summarizeIfNeeded reads.                        *)
(***************************************************************************)
\* the step in which handler p runs summarizeIfNeeded(sk, channelId) up to
\* its return or to the summarization call
TriggerEvaluated(p) ==
    /\ handlers[p].pc \in {"channelCtx", "recentImages"}
    /\ handlers'[p].pc = "call"

\* the private window that step reads: getUserHist(sk)
WindowRead(p) == WindowOf(userMemory, handlers[p].sk)

\* the estimate of that step: roughTokens(combined)
EstimateRead(p) ==
    roughTokens(Text(<<>>, CombinedLen(WindowRead(p),
                                       WindowOf(sharedMemory, handlers[p].channelId))))

\* C33: with MEM_TURNS_PRIVATE >= 1 and handlers interleaved in any way,
\* whenever summarizeIfNeeded evaluates its trigger condition the private
\* window it reads has at most MEM_TURNS_PRIVATE turns, and the
\* summarization call is issued only when the estimate is at least 6000.
TriggerReadsBoundedWindow ==
    [][\A p \in Procs :
          (TriggerEvaluated(p) /\ MAX_TURNS_PRIVATE >= 1) =>
            /\ Len(WindowRead(p)) <= MAX_TURNS_PRIVATE
            /\ handlers'[p].op = "summarize" => EstimateRead(p) >= SUMMARY_TOKENS]_vars

\* the part of it about the call alone
SummarizesOnlyBySize ==
    [][\A p \in Procs :
          (TriggerEvaluated(p) /\ MAX_TURNS_PRIVATE >= 1
             /\ handlers'[p].op = "summarize") =>
            EstimateRead(p) >= SUMMARY_TOKENS]_vars

(***************************************************************************)
(* SpecFrame: the slash commands of two users in one channel and the       *)
(* messages of one of them in another channel, two invocations             *)
(* in flight at a time, with windows of two turns; an answer is long       *)
(* enough for the next trigger of its channel to summarize, and a summary  *)
(* is worth caching.                                                       *)
(***************************************************************************)
FrameChannels == {"c1", "c2"}
\* two users of one channel, and one of them in another channel
FrameKeys     == {<<"c1", "u1">>, <<"c1", "u2">>, <<"c2", "u1">>}
HUGE          == Text(<<"huge">>, 24000)
HI_RICKY      == Message("Default", FALSE, FALSE, FALSE, FALSE,
                         <<"R", "i", "c", "k", "y", " ", "h", "i">>, 0)

FrameEnvs ==
    {With(With(With(With(DefaultEnv, "GEMINI_STREAM", FALSE),
                    "GEMINI_MIN_CACHE_TOKENS", 10),
               "MEM_TURNS_PRIVATE", 2), "MEM_TURNS_SHARED", 2)}

InitFrame == InitWith(FrameEnvs, {<<TRUE, FALSE>>})

NextFrame ==
    \/ \E p \in Procs, u \in Users, t \in Prompts :
          InteractionCreate(p, "c1", u, "gemini", t)
    \/ \E p \in Procs, u \in Users :
          InteractionCreate(p, "c1", u, "gemini-reset", EmptyText)
    \/ \E p \in Procs :
          MessageReceived(p, "c2", "u1", HI_RICKY)
    \/ \E p \in Procs : GatewayResolved(p)
    \/ \E p \in Procs : SummarizeResolved(p, SUMMARY)
    \/ \E p \in Procs : CacheCreated(p)
    \/ \E p \in Procs : GenerateResolved(p, HUGE)

SpecFrame == InitFrame /\ [][NextFrame]_vars

(***************************************************************************)
(* Claims about what a handler leaves alone.                               *)
(***************************************************************************)
\* what map m holds for key k, if anything
EntryOf(m, k) == IF MapHas(m, k) THEN <<m[k]>> ELSE <<>>

\* the step is a continuation of handler p: its frame changes in more than
\* the array it shares with the handlers of its session key
Acts(p) ==
    [handlers'[p] EXCEPT !.priv = <<>>, !.privLive = FALSE]
      # [handlers[p] EXCEPT !.priv = <<>>, !.privLive = FALSE]

\* C34: a step changes the private window, the summary or the cache handle
\* of session key K only if it is a step of a handler for K; it changes the
\* shared window of channel c only if it is a step of a handler of a
\* trigger in c; a step of a reset leaves every shared window as it is.
HandlerChangesOwnKeyOnly ==
    [][/\ \A K \in FrameKeys :
             (\/ EntryOf(userMemory, K)' # EntryOf(userMemory, K)
              \/ EntryOf(sessionSummary, K)' # EntryOf(sessionSummary, K)
              \/ EntryOf(sessionCache, K)' # EntryOf(sessionCache, K))
             => \E p \in Procs : Acts(p) /\ handlers'[p].sk = K
       /\ \A c \in FrameChannels :
             EntryOf(sharedMemory, c)' # EntryOf(sharedMemory, c)
             => \E p \in Procs : /\ Acts(p)
                                 /\ handlers'[p].channelId = c
                                 /\ handlers'[p].kind # "gemini-reset"
       /\ (\E p \in Procs : Acts(p) /\ handlers'[p].kind = "gemini-reset"
                              /\ handlers[p].kind # "gemini-reset")
             => sharedMemory' = sharedMemory]_vars

\* a reset has cleared the window of its key while another key of the same
\* channel keeps its window, summary and handle, and the channel its window
ResetKeepsOtherKeyWitness ==
    \E p \in Procs, K \in FrameKeys :
        LET h == handlers[p]
        IN  /\ h.kind = "gemini-reset" /\ h.pc = "resetReply"
            /\ "userMemory" \in h.cleared
            /\ K # h.sk /\ K[1] = h.channelId
            /\ MapHas(userMemory, K) /\ userMemory[K] # <<>>
            /\ MapHas(sessionSummary, K)
            /\ MapHas(sessionCache, K)
            /\ MapHas(sharedMemory, h.channelId) /\ sharedMemory[h.channelId] # <<>>

====
